---- MODULE Spec2Model ----
(***************************************************************************)
(* arc-tmux: the run orchestrator (internal/cmd/run.go), its sentinel      *)
(* extractor, and the idle detector tmux.WaitIdle (pkg/tmux).              *)
(*                                                                         *)
(* Text is a sequence of one-character strings, so that splitting a        *)
(* capture into lines and joining the lines again are real conversions.    *)
(* A Go error is the sequence of the words of its Error() text; the nil    *)
(* error is the empty sequence.  A *int is <<>> (nil) or <<n>>.            *)
(***************************************************************************)
EXTENDS Integers, Sequences, FiniteSets, TLC

\* ------------------------------------------------------------------ bounds
\* Most lines a captured text is built from (extractor specification).
MaxLines == 4

\* ----------------------------------------------------------- Go's strings
NL == "\n"

Whitespace == {" ", "\t", "\n", "\r"}

Digits == {"0", "1", "2", "3", "4", "5", "6", "7", "8", "9"}

DigitVal(c) ==
  CASE c = "0" -> 0 [] c = "1" -> 1 [] c = "2" -> 2 [] c = "3" -> 3
    [] c = "4" -> 4 [] c = "5" -> 5 [] c = "6" -> 6 [] c = "7" -> 7
    [] c = "8" -> 8 [] c = "9" -> 9

\* strings.Index(s, sub): 0-based place of the first occurrence, or -1.
Index(s, sub) ==
  LET Places == {i \in 0..(Len(s) - Len(sub)) : SubSeq(s, i + 1, i + Len(sub)) = sub}
  IN IF Places = {} THEN -1
     ELSE CHOOSE i \in Places : \A j \in Places : i <= j

\* strings.Contains(s, sub)
Contains(s, sub) == Index(s, sub) >= 0

\* strings.HasSuffix(s, suffix)
HasSuffix(s, suffix) ==
  /\ Len(suffix) <= Len(s)
  /\ SubSeq(s, Len(s) - Len(suffix) + 1, Len(s)) = suffix

\* strings.Split(s, sep) for a non-empty sep.
RECURSIVE Split(_, _)
Split(s, sep) ==
  LET i == Index(s, sep)
  IN IF i < 0 THEN <<s>>
     ELSE <<SubSeq(s, 1, i)>> \o Split(SubSeq(s, i + Len(sep) + 1, Len(s)), sep)

\* strings.Join(elems, sep)
RECURSIVE Join(_, _)
Join(elems, sep) ==
  IF Len(elems) = 0 THEN <<>>
  ELSE IF Len(elems) = 1 THEN elems[1]
  ELSE elems[1] \o sep \o Join(Tail(elems), sep)

\* strings.TrimSpace(s)
RECURSIVE TrimLeft(_)
TrimLeft(s) ==
  IF Len(s) > 0 /\ s[1] \in Whitespace THEN TrimLeft(Tail(s)) ELSE s

RECURSIVE TrimRight(_)
TrimRight(s) ==
  IF Len(s) > 0 /\ s[Len(s)] \in Whitespace
  THEN TrimRight(SubSeq(s, 1, Len(s) - 1)) ELSE s

TrimSpace(s) == TrimRight(TrimLeft(s))

\* The value of a string of decimal digits.
RECURSIVE DecimalVal(_)
DecimalVal(ds) ==
  IF Len(ds) = 0 THEN 0
  ELSE 10 * DecimalVal(SubSeq(ds, 1, Len(ds) - 1)) + DigitVal(ds[Len(ds)])

\* strconv.Atoi(s): an optional sign, then one or more digits.
Atoi(s) ==
  LET signed == Len(s) > 0 /\ s[1] \in {"+", "-"}
      ds == IF signed THEN Tail(s) ELSE s
      ok == Len(ds) > 0 /\ \A i \in 1..Len(ds) : ds[i] \in Digits
  IN [ok |-> ok,
      val |-> IF ~ok THEN 0
              ELSE IF signed /\ s[1] = "-" THEN 0 - DecimalVal(ds)
              ELSE DecimalVal(ds)]

\* fmt's %d of an int.
RECURSIVE FormatNat(_)
FormatNat(n) ==
  LET d == CHOOSE c \in Digits : DigitVal(c) = n % 10
  IN IF n < 10 THEN <<d>> ELSE FormatNat(n \div 10) \o <<d>>

FormatInt(n) == IF n < 0 THEN <<"-">> \o FormatNat(0 - n) ELSE FormatNat(n)

\* lines with line i (1-based) removed: append(lines[:i], lines[i+1:]...)
RemoveAt(lines, i) == SubSeq(lines, 1, i - 1) \o SubSeq(lines, i + 1, Len(lines))

\* ------------------------------------------------------ sentinel extractor
\* splitLines (follow.go): the lines of s, without the empty piece a trailing
\* newline leaves.
splitLines(s) ==
  IF s = <<>> THEN <<>>
  ELSE LET lines == Split(s, <<NL>>)
       IN IF Len(lines) > 0 /\ lines[Len(lines)] = <<>>
          THEN SubSeq(lines, 1, Len(lines) - 1)
          ELSE lines

\* Shared by the mutants of exitScan: whether a line holds the tag followed
\* by an integer.
exitLineOk(line, tag) ==
  /\ Index(line, tag) >= 0
  /\ Atoi(TrimSpace(SubSeq(line, Index(line, tag) + Len(tag) + 1, Len(line)))).ok

exitLineVal(line, tag) ==
  Atoi(TrimSpace(SubSeq(line, Index(line, tag) + Len(tag) + 1, Len(line)))).val

\* Mutant of exitScan: the exit line is reported and left where it is.
exitScanKeep(lines, tag, i) ==
  LET hits == {k \in 1..i : exitLineOk(lines[k], tag)}
      last == CHOOSE k \in hits : \A m \in hits : m <= k
  IN IF hits = {} THEN [lines |-> lines, code |-> <<>>, found |-> FALSE]
     ELSE [lines |-> lines, code |-> <<exitLineVal(lines[last], tag)>>, found |-> TRUE]

\* Mutant of exitScan: the FIRST line carrying a code is taken.
exitScanFirst(lines, tag, i) ==
  LET hits == {k \in 1..i : exitLineOk(lines[k], tag)}
      first == CHOOSE k \in hits : \A m \in hits : k <= m
  IN IF hits = {} THEN [lines |-> lines, code |-> <<>>, found |-> FALSE]
     ELSE [lines |-> RemoveAt(lines, first), code |-> <<exitLineVal(lines[first], tag)>>,
           found |-> TRUE]

\* The backward loop of extractExitFromLines, at line i (1-based).
RECURSIVE exitScan(_, _, _)
exitScan(lines, tag, i) ==
  IF i < 1 THEN [lines |-> lines, code |-> <<>>, found |-> FALSE]
  ELSE LET idx == Index(lines[i], tag)
           codeStr == TrimSpace(SubSeq(lines[i], idx + Len(tag) + 1, Len(lines[i])))
       IN IF idx < 0 THEN exitScan(lines, tag, i - 1)
          ELSE IF codeStr = <<>> THEN exitScan(lines, tag, i - 1)
          ELSE IF ~Atoi(codeStr).ok THEN exitScan(lines, tag, i - 1)
          ELSE [lines |-> RemoveAt(lines, i), code |-> <<Atoi(codeStr).val>>,
                found |-> TRUE]

extractExitFromLines(lines, tag) ==
  IF tag = <<>> THEN [lines |-> lines, code |-> <<>>, found |-> FALSE]
  ELSE exitScan(lines, tag, Len(lines))

\* Mutant of startScan: the FIRST line containing the start tag is taken.
RECURSIVE startScanFirst(_, _, _)
startScanFirst(lines, startTag, i) ==
  LET hits == {k \in 1..Len(lines) : Contains(lines[k], startTag)}
  IN IF hits = {} THEN 0 ELSE CHOOSE k \in hits : \A m \in hits : k <= m

\* The backward scan for the start tag: the last line containing it, or 0
\* (the code's startIdx = -1).
RECURSIVE startScan(_, _, _)
startScan(lines, startTag, i) ==
  IF i < 1 THEN 0
  ELSE IF Contains(lines[i], startTag) THEN i
  ELSE startScan(lines, startTag, i - 1)

\* Mutant of endScan: without an end line the window is closed where it opens.
endScanShut(lines, endTag, i) ==
  LET hits == {k \in i..Len(lines) : Contains(lines[k], endTag)}
  IN IF hits = {} THEN i ELSE CHOOSE k \in hits : \A m \in hits : k <= m

\* The forward scan for the end tag from line i: the first line containing
\* it, or Len(lines) + 1 (the code's endIdx = len(lines)).
RECURSIVE endScan(_, _, _)
endScan(lines, endTag, i) ==
  IF i > Len(lines) THEN Len(lines) + 1
  ELSE IF Contains(lines[i], endTag) THEN i
  ELSE endScan(lines, endTag, i + 1)

\* Mutant of NotFound: the text is returned re-joined from its lines.
NotFoundRejoined(output) ==
  [clean |-> Join(Split(output, <<NL>>), <<" ">>), code |-> <<>>, found |-> FALSE,
   windowFound |-> FALSE]

NotFound(output) ==
  [clean |-> output, code |-> <<>>, found |-> FALSE, windowFound |-> FALSE]

extractRunWindow(output, startTag, endTag, exitTag, parseExit) ==
  IF startTag = <<>> \/ endTag = <<>> THEN NotFound(output)
  ELSE LET hadTrailingNewline == HasSuffix(output, <<NL>>)
           lines == splitLines(output)
           startIdx == startScan(lines, startTag, Len(lines))
           endIdx == endScan(lines, endTag, startIdx + 1)
           segment == SubSeq(lines, startIdx + 1, endIdx - 1)
           ex == IF parseExit THEN extractExitFromLines(segment, exitTag)
                 ELSE [lines |-> segment, code |-> <<>>, found |-> FALSE]
           joined == Join(ex.lines, <<NL>>)
       IN IF startIdx = 0 THEN NotFound(output)
          ELSE [clean |-> IF hadTrailingNewline THEN joined \o <<NL>> ELSE joined,
                code |-> ex.code, found |-> ex.found, windowFound |-> TRUE]

\* --------------------------------------------------------------- follow
\* Mutant of overlapScan: the SHORTEST overlap is taken.
overlapScanShortest(prev, curr, k) ==
  LET ks == {j \in 1..k : SubSeq(prev, Len(prev) - j + 1, Len(prev)) = SubSeq(curr, 1, j)}
  IN IF ks = {} THEN curr
     ELSE SubSeq(curr, (CHOOSE j \in ks : \A m \in ks : j <= m) + 1, Len(curr))

\* The loop of diffLines (follow.go), at overlap length k, counting down.
\* equalSlice is equality of the two pieces.
RECURSIVE overlapScan(_, _, _)
overlapScan(prev, curr, k) ==
  IF k <= 0 THEN curr
  ELSE IF SubSeq(prev, Len(prev) - k + 1, Len(prev)) = SubSeq(curr, 1, k)
  THEN SubSeq(curr, k + 1, Len(curr))
  ELSE overlapScan(prev, curr, k - 1)

\* diffLines (follow.go).
diffLines(prev, curr) ==
  IF Len(prev) = 0 THEN curr
  ELSE overlapScan(prev, curr, IF Len(curr) < Len(prev) THEN Len(curr) ELSE Len(prev))

\* diffLinesByCount (follow.go) on a non-nil prevCount: what is emitted and
\* the new *prevCount.
diffLinesByCount(curr, prevCount) ==
  IF prevCount <= 0 THEN [emit |-> curr, prevCount |-> Len(curr)]
  ELSE IF Len(curr) < prevCount THEN [emit |-> curr, prevCount |-> Len(curr)]
  ELSE [emit |-> SubSeq(curr, prevCount + 1, Len(curr)), prevCount |-> Len(curr)]

\* ------------------------------------------------------------------ errors
\* The nil error.
Nil == <<>>

\* errors.New("timeout waiting for idle") (WaitIdle).
ErrTimeout == <<"timeout", "waiting", "for", "idle">>

\* What os/exec reports for a tmux call: the command exited non-zero, was
\* killed, or could not be found by exec.LookPath.
ExecCauses == { <<"exit", "status", "1">>, <<"signal:", "killed">> }

LookPathCause ==
  <<"exec:", "\"tmux\":", "executable", "file", "not", "found", "in", "$PATH">>

\* fmt.Errorf("tmux not found in PATH: %w", err) (ensureTmux failed).
ErrNoTmux == <<"tmux", "not", "found", "in", "PATH:">> \o LookPathCause

\* fmt.Errorf("tmux capture-pane: %w", err) (Capture).
ErrCapture(cause) == <<"tmux", "capture-pane:">> \o cause

\* fmt.Errorf("tmux display-message: %w", err) (PaneActivity).
ErrDisplay(cause) == <<"tmux", "display-message:">> \o cause

\* fmt.Errorf("tmux send-keys: %w", err) and "tmux send-keys enter: %w" (SendLiteral).
ErrSendKeys(cause) == <<"tmux", "send-keys:">> \o cause

ErrSendEnter(cause) == <<"tmux", "send-keys", "enter:">> \o cause

\* A failed write of the result to the command's output stream.
ErrWrite == <<"write", "/dev/stdout:", "broken", "pipe">>

\* codedError.Error() without a cause: "<Code>: <Message>".
errPaneRequired == <<"ERR_PANE_REQUIRED">>

errInvalidPane == <<"ERR_INVALID_PANE">>

errCommandExit == <<"ERR_COMMAND_EXIT">>

\* ------------------------------------------------------------ isTimeout
\* The characters of the words the errors of WaitIdle are made of.
Spell(w) ==
  CASE w = "timeout" -> <<"t", "i", "m", "e", "o", "u", "t">>
    [] w = "waiting" -> <<"w", "a", "i", "t", "i", "n", "g">>
    [] w = "for" -> <<"f", "o", "r">>
    [] w = "idle" -> <<"i", "d", "l", "e">>
    [] w = "tmux" -> <<"t", "m", "u", "x">>
    [] w = "not" -> <<"n", "o", "t">>
    [] w = "found" -> <<"f", "o", "u", "n", "d">>
    [] w = "in" -> <<"i", "n">>
    [] w = "PATH:" -> <<"P", "A", "T", "H", ":">>
    [] w = "exec:" -> <<"e", "x", "e", "c", ":">>
    [] w = "\"tmux\":" -> <<"\"", "t", "m", "u", "x", "\"", ":">>
    [] w = "executable" -> <<"e", "x", "e", "c", "u", "t", "a", "b", "l", "e">>
    [] w = "file" -> <<"f", "i", "l", "e">>
    [] w = "$PATH" -> <<"$", "P", "A", "T", "H">>
    [] w = "capture-pane:" -> <<"c", "a", "p", "t", "u", "r", "e", "-", "p", "a", "n", "e", ":">>
    [] w = "exit" -> <<"e", "x", "i", "t">>
    [] w = "status" -> <<"s", "t", "a", "t", "u", "s">>
    [] w = "1" -> <<"1">>
    [] w = "signal:" -> <<"s", "i", "g", "n", "a", "l", ":">>
    [] w = "killed" -> <<"k", "i", "l", "l", "e", "d">>

\* err.Error(): the words of the message, one space between them.
RECURSIVE ErrorText(_)
ErrorText(err) ==
  IF err = <<>> THEN <<>>
  ELSE IF Len(err) = 1 THEN Spell(err[1])
  ELSE Spell(err[1]) \o <<" ">> \o ErrorText(Tail(err))

\* strings.ToLower on the letters that occur in capitals.
ToLower(s) ==
  [i \in 1..Len(s) |->
     CASE s[i] = "P" -> "p" [] s[i] = "A" -> "a" [] s[i] = "T" -> "t"
       [] s[i] = "H" -> "h" [] OTHER -> s[i]]

\* Mutant of isTimeout: every error counts as the timeout.
isTimeoutAny(err) == err # Nil

\* isTimeout (stop.go): the error's text, lower-cased, contains "timeout".
isTimeout(err) ==
  IF err = Nil THEN FALSE
  ELSE Contains(ToLower(ErrorText(err)), Spell("timeout"))

\* Mutant of combineRunErrors: the exit code is looked at before the wait error.
combineRunErrorsExitFirst(waitErr, exitPropagate, exitRequested, code, found) ==
  IF exitPropagate /\ found /\ code # <<>> /\ code[1] # 0
    THEN errCommandExit \o <<":", "command", "exited", "with">> \o FormatInt(code[1])
  ELSE IF waitErr # Nil THEN waitErr
  ELSE IF exitPropagate /\ ~found /\ exitRequested
    THEN errCommandExit \o <<":", "exit", "code", "not", "found">>
  ELSE Nil

\* Mutant of combineRunErrors: a non-zero code fails the run without propagation.
combineRunErrorsAlways(waitErr, exitPropagate, exitRequested, code, found) ==
  IF waitErr # Nil THEN waitErr
  ELSE IF exitPropagate /\ ~found /\ exitRequested
    THEN errCommandExit \o <<":", "exit", "code", "not", "found">>
  ELSE IF found /\ code # <<>> /\ code[1] # 0
    THEN errCommandExit \o <<":", "command", "exited", "with">> \o FormatInt(code[1])
  ELSE Nil

\* combineRunErrors (run.go): the error the run invocation ends with.
combineRunErrors(waitErr, exitPropagate, exitRequested, code, found) ==
  IF waitErr # Nil THEN waitErr
  ELSE IF exitPropagate /\ ~found /\ exitRequested
    THEN errCommandExit \o <<":", "exit", "code", "not", "found">>
  ELSE IF exitPropagate /\ found /\ code # <<>> /\ code[1] # 0
    THEN errCommandExit \o <<":", "command", "exited", "with">> \o FormatInt(code[1])
  ELSE Nil

\* --------------------------------------------------------- wrapped command
\* Tags are texts.  "S", "E" and "X" stand for the fixed parts
\* "__ARC_TMUX_RUN_START", "__ARC_TMUX_RUN_END" and "__ARC_TMUX_EXIT:"; a run
\* id is one further character.
DefaultStartTag == <<"S">>

DefaultEndTag == <<"E">>

DefaultExitTag == <<"X">>

\* fmt.Sprintf("__ARC_TMUX_RUN_START:%s__", runID), and the end tag likewise.
StartTagOf(runID) == <<"S", runID>>

EndTagOf(runID) == <<"E", runID>>

\* The statements of the shell text wrapCommandForRun builds, in order.
StPrintf(text) == [op |-> "printf", text |-> text, cmd |-> <<>>]

StPrintfStatus(text) == [op |-> "printf %d $status", text |-> text, cmd |-> <<>>]

StSubshell(command) == [op |-> "subshell", text |-> <<>>, cmd |-> <<command>>]

StAssign == [op |-> "status=$?", text |-> <<>>, cmd |-> <<>>]

\* A command typed as it is, run by the pane's own shell.
StCommand(command) == [op |-> "command", text |-> <<>>, cmd |-> <<command>>]

\* Mutant of wrapCommandForRun: a printf runs between the subshell and the
\* taking of its status.
wrapCommandForRunLate(command, startTag, endTag, exitTag, includeExit) ==
  LET st == IF TrimSpace(startTag) = <<>> THEN DefaultStartTag ELSE startTag
      en == IF TrimSpace(endTag) = <<>> THEN DefaultEndTag ELSE endTag
      ex == IF TrimSpace(exitTag) = <<>> THEN DefaultExitTag ELSE exitTag
  IN << StPrintf(<<NL>> \o st \o <<NL>>), StSubshell(command), StPrintf(<<>>), StAssign >>
     \o (IF includeExit THEN << StPrintfStatus(<<NL>> \o ex) >> ELSE << >>)
     \o << StPrintf(<<NL>> \o en \o <<NL>>) >>

wrapCommandForRun(command, startTag, endTag, exitTag, includeExit) ==
  LET st == IF TrimSpace(startTag) = <<>> THEN DefaultStartTag ELSE startTag
      en == IF TrimSpace(endTag) = <<>> THEN DefaultEndTag ELSE endTag
      ex == IF TrimSpace(exitTag) = <<>> THEN DefaultExitTag ELSE exitTag
  IN << StPrintf(<<NL>> \o st \o <<NL>>), StSubshell(command), StAssign >>
     \o (IF includeExit THEN << StPrintfStatus(<<NL>> \o ex) >> ELSE << >>)
     \o << StPrintf(<<NL>> \o en \o <<NL>>) >>

\* The shell (sh) running one statement: sh is [last |-> $?, status |-> the
\* variable status (<<>> while unset), out |-> what the statement printed].
\* printf ends with status 0; a subshell ends with its command's status.
ShellExec(st, sh) ==
  CASE st.op = "printf" ->
         [last |-> 0, status |-> sh.status, out |-> st.text]
    [] st.op = "printf %d $status" ->
         [last |-> 0, status |-> sh.status,
          out |-> st.text \o FormatInt(IF sh.status = <<>> THEN 0 ELSE sh.status[1])
                    \o <<NL>>]
    [] st.op = "subshell" ->
         [last |-> st.cmd[1].status, status |-> sh.status, out |-> st.cmd[1].out]
    [] st.op = "command" ->
         [last |-> st.cmd[1].status, status |-> sh.status, out |-> st.cmd[1].out]
    [] st.op = "status=$?" ->
         [last |-> 0, status |-> <<sh.last>>, out |-> <<>>]

\* The typed text as the terminal echoes it: one line holding every word of
\* the command, the tags (and the exit tag followed by "%d") among them.
RECURSIVE EchoOf(_)
EchoOf(script) ==
  IF script = <<>> THEN <<>>
  ELSE LET st == script[1]
           piece == CASE st.op = "printf" -> <<"p">> \o TrimSpace(st.text) \o <<";">>
                      [] st.op = "printf %d $status" ->
                           <<"p">> \o TrimSpace(st.text) \o <<"%", "d", ";">>
                      [] st.op = "subshell" -> <<"(", "c", ")", ";">>
                      [] st.op = "command" -> <<"c">>
                      [] st.op = "status=$?" -> <<"=", ";">>
       IN piece \o EchoOf(Tail(script))

\* ------------------------------------------------------------- pane text
\* The last n lines of a text, as tmux capture-pane -S -n prints them.
LastLines(text, n) ==
  LET ls == splitLines(text)
  IN IF Len(ls) <= n THEN text
     ELSE Join(SubSeq(ls, Len(ls) - n + 1, Len(ls)), <<NL>>) \o <<NL>>

\* Capture (pkg/tmux): the pane's text, all of it for lines <= 0.
Capture(paneText, lines) == IF lines > 0 THEN LastLines(paneText, lines) ELSE paneText

\* ---------------------------------------------------------- pane targets
\* strings.Count(s, c) for a one-character c.
Count(s, c) == Cardinality({i \in 1..Len(s) : s[i] = c})

\* ValidateTarget (pkg/tmux): exactly one ":" and one ".".
ValidateTarget(target) ==
  IF Count(target, ":") # 1 \/ Count(target, ".") # 1
  THEN <<"invalid", "pane", "id;", "expected", "session:window.pane">>
  ELSE Nil

\* Mutant of validatePaneTarget: every target passes.
validatePaneTargetLax(target) == Nil

\* validatePaneTarget (target.go)
validatePaneTarget(target) ==
  IF ValidateTarget(target) # Nil
  THEN errInvalidPane \o <<":">> \o ValidateTarget(target) \o <<":">> \o ValidateTarget(target)
  ELSE Nil

\* parseFormattedPaneID (format.go): the zero values for what is not there;
\* an index that is no integer is 0.
parseFormattedPaneID(fid) ==
  LET zero == [session |-> <<>>, window |-> 0, pane |-> 0]
      c == Index(fid, <<":">>)
      rest == SubSeq(fid, c + 2, Len(fid))
      d == Index(rest, <<".">>)
  IN IF fid = <<>> \/ c < 0 THEN zero
     ELSE IF d < 0 THEN [zero EXCEPT !.session = SubSeq(fid, 1, c)]
     ELSE [session |-> SubSeq(fid, 1, c),
           window |-> Atoi(SubSeq(rest, 1, d)).val,
           pane |-> Atoi(SubSeq(rest, d + 2, Len(rest))).val]

\* ------------------------------------------------------- the alias file
\* The alias names of the model, in the order encoding/json writes map keys.
AliasOrder == << <<"v">>, <<"w">> >>

\* The pieces the text of the alias file is made of: the opening brace,
\* one "name": "target" member each, the closing brace.
JOpen == [tok |-> "{", name |-> <<>>, target |-> <<>>]

JClose == [tok |-> "}", name |-> <<>>, target |-> <<>>]

JMember(n, t) == [tok |-> "member", name |-> n, target |-> t]

NoAliases == [n \in {} |-> <<>>]

\* json.MarshalIndent(aliases, "", "  ") (alias_store.go): members in key order.
RECURSIVE MarshalMembers(_, _)
MarshalMembers(aliases, i) ==
  IF i > Len(AliasOrder) THEN <<>>
  ELSE (IF AliasOrder[i] \in DOMAIN aliases
        THEN << JMember(AliasOrder[i], aliases[AliasOrder[i]]) >> ELSE <<>>)
       \o MarshalMembers(aliases, i + 1)

MarshalIndent(aliases) == <<JOpen>> \o MarshalMembers(aliases, 1) \o <<JClose>>

ErrJSON == <<"unexpected", "end", "of", "JSON", "input">>

ErrPermission(path) == <<"open", path, "permission", "denied">>

\* json.Unmarshal(data, &aliases) (alias_store.go): an object, read member by
\* member, a later member replacing an earlier one of the same name.
Unmarshal(data) ==
  LET n == Len(data)
      wellFormed == /\ n >= 2 /\ data[1] = JOpen /\ data[n] = JClose
                    /\ \A i \in 2..(n - 1) : data[i].tok = "member"
      names == {data[i].name : i \in 2..(n - 1)}
      lastOf(nm) == CHOOSE i \in 2..(n - 1) :
                       /\ data[i].name = nm
                       /\ \A j \in 2..(n - 1) : data[j].name = nm => j <= i
  IN IF wellFormed
     THEN [aliases |-> [nm \in names |-> data[lastOf(nm)].target], err |-> Nil]
     ELSE [aliases |-> NoAliases, err |-> ErrJSON]

\* A file: absent, or there with its content; a file that cannot be read.
NoFile == [exists |-> FALSE, readable |-> TRUE, data |-> <<>>]

FileOf(data) == [exists |-> TRUE, readable |-> TRUE, data |-> data]

LockedFile == [exists |-> TRUE, readable |-> FALSE, data |-> <<>>]

\* loadAliases (alias_store.go) on the file at the path.
loadAliases(file) ==
  IF ~file.exists THEN [aliases |-> NoAliases, err |-> Nil]
  ELSE IF ~file.readable THEN [aliases |-> NoAliases, err |-> ErrPermission("aliases.json:")]
  ELSE IF Len(file.data) = 0 THEN [aliases |-> NoAliases, err |-> Nil]
  ELSE Unmarshal(file.data)

\* ------------------------------------------------- resolvePaneTarget
errUnknownSelector == <<"ERR_UNKNOWN_SELECTOR">>

errNoActivePane == <<"ERR_NO_ACTIVE_PANE">>

errNoCurrentPane == <<"ERR_NO_CURRENT_PANE">>

HasPrefix(s, prefix) == Len(prefix) <= Len(s) /\ SubSeq(s, 1, Len(prefix)) = prefix

TrimPrefix(s, prefix) ==
  IF HasPrefix(s, prefix) THEN SubSeq(s, Len(prefix) + 1, Len(s)) ELSE s

SelCurrent == <<"@", "c", "u", "r", "r", "e", "n", "t">>

SelActive == <<"@", "a", "c", "t", "i", "v", "e">>

\* The characters normalizeAliasName lets through.
AliasChars ==
  { "a", "b", "c", "d", "e", "f", "g", "h", "i", "j", "k", "l", "m", "n", "o", "p", "q",
    "r", "s", "t", "u", "v", "w", "x", "y", "z", "0", "1", "2", "3", "4", "5", "6", "7",
    "8", "9", "-", "_", "." }

\* A text as one word of a message (%s, %q).
WordOf(text) ==
  CASE text = <<"@", "w">> -> "@w"
    [] text = <<"@", "v">> -> "@v"
    [] text = <<"@", "!">> -> "@!"
    [] text = <<"!">> -> "\"!\""
    [] text = Tail(SelCurrent) -> "\"current\""
    [] text = Tail(SelActive) -> "\"active\""
    [] OTHER -> "..."

\* normalizeAliasName (alias_store.go).
normalizeAliasName(name) ==
  LET trimmed == ToLower(TrimPrefix(TrimSpace(name), <<"@">>))
  IN IF TrimSpace(name) = <<>>
       THEN [name |-> <<>>, err |-> <<"alias", "name", "is", "required">>]
     ELSE IF trimmed = Tail(SelCurrent) \/ trimmed = Tail(SelActive)
       THEN [name |-> <<>>, err |-> <<"alias", WordOf(trimmed), "is", "reserved">>]
     ELSE IF \E i \in 1..Len(trimmed) : trimmed[i] \notin AliasChars
       THEN [name |-> <<>>, err |-> <<"invalid", "alias", "name:", WordOf(name)>>]
     ELSE [name |-> trimmed, err |-> Nil]

\* resolvePaneTarget (target.go) in an environment: the alias file, what
\* tmux.CurrentPaneID returns and the active panes tmux.ListPanes returns
\* (at most one in the model, so sort.Strings leaves the list as it is).
resolvePaneTarget(raw, env) ==
  LET trimmed == TrimSpace(raw)
      fail(err) == [target |-> <<>>, err |-> err]
      norm == normalizeAliasName(TrimPrefix(trimmed, <<"@">>))
      loaded == loadAliases(env.file)
  IN IF trimmed = <<>>
       THEN fail(errPaneRequired \o <<":", "--pane", "is", "required">>)
     ELSE IF ~HasPrefix(trimmed, <<"@">>) THEN [target |-> trimmed, err |-> Nil]
     ELSE IF trimmed = SelCurrent
       THEN IF env.currentErr # Nil THEN fail(env.currentErr)
            ELSE IF TrimSpace(env.current) = <<>>
              THEN fail(errNoCurrentPane \o <<":", "no", "current", "pane", "found">>)
            ELSE [target |-> env.current, err |-> Nil]
     ELSE IF trimmed = SelActive
       THEN IF env.panesErr # Nil THEN fail(env.panesErr)
            ELSE IF Len(env.active) = 0
              THEN fail(errNoActivePane \o <<":", "no", "active", "pane", "found">>)
            ELSE [target |-> env.active[1], err |-> Nil]
     ELSE IF norm.err # Nil THEN fail(norm.err)
     ELSE IF loaded.err # Nil THEN fail(loaded.err)
     ELSE IF norm.name \notin DOMAIN loaded.aliases
       THEN fail(errUnknownSelector \o <<":", "unknown", "pane", "selector:", WordOf(trimmed)>>)
     ELSE [target |-> loaded.aliases[norm.name], err |-> Nil]

\* ================================================================ state
VARIABLES
  \* -- extractor harness: a captured text and the extraction made of it
  xpc,      \* "build" (text may grow), "tail" (text ended without newline), "done"
  xT,       \* the captured text handed to extractRunWindow
  xLines,   \* history: the lines the text was written from, in order
  xNl,      \* history: whether the last line written was ended by a newline
  xin,      \* the arguments of the call: tags and parseExit
  xres,     \* what extractRunWindow returned
  xex       \* what extractExitFromLines returned, called twice in a row

xvars == <<xpc, xT, xLines, xNl, xin, xres, xex>>

VARIABLES
  \* -- the run invocation (newRunCmd's RunE) and the pane it drives
  rpc,        \* where RunE stands: "idle", "start", "send", "wait", "capture",
              \* "retry", "emit", "return", "done"
  ropts,      \* the flags: exitCode, segment, exitPropagate, lines, format, exitTag
  rarg,       \* the --pane argument
  renv,       \* what target resolution finds: alias file, current and active panes
  rcmd,       \* the user's command: what it prints and its exit status
  rtags,      \* startTag and endTag of this run (empty without sentinels)
  ptyped,     \* the statements typed into the pane (empty: nothing typed)
  pentered,   \* whether Enter followed the typed text
  paneOld,    \* pane text from before this run (scrollback)
  paneEcho,   \* the echo of the typed text
  paneOut,    \* what the typed command has printed so far
  shq,        \* the statements the pane's shell has still to run
  sh,         \* the shell's $? (last) and its variable status
  waitErr,    \* what WaitIdle returned
  capt,       \* the variable capture of RunE
  codePtr,    \* the variable codePtr of RunE
  found,      \* the variable found of RunE
  windowFound, \* windowFound of the last extractRunWindow call
  ncap,       \* how many Capture calls RunE has made
  rcaps,      \* history: the Capture calls made: the limit, success, the text
  emitted,    \* the result written to the output stream
  retErr      \* the error RunE returned

rvars == <<rpc, ropts, rarg, renv, rcmd, rtags, ptyped, pentered, paneOld, paneEcho, paneOut,
           shq, sh, waitErr, capt, codePtr, found, windowFound, ncap, rcaps, emitted,
           retErr>>

VARIABLES
  \* -- one call of tmux.WaitIdle, the pane it watches and the clock
  now,          \* the clock, in tenths of a second
  pcontent,     \* what the pane shows
  ptlast,       \* when the pane's content last changed
  wpc,          \* where WaitIdle stands: "idle", "call", "ts", "hash", "done"
  wq,           \* idleDur
  wtimeout,     \* timeout
  wdeadline,    \* deadline
  lastActivity, \* lastActivity of the timestamp loop
  lastHash,     \* lastHash of the hash loop ("zero": the zero value)
  lastChange,   \* lastChange of the hash loop
  wake,         \* when the loop runs its next iteration (end of time.Sleep)
  wres,         \* the error WaitIdle returned
  wwhy,         \* history: the return taken: "", "idle", "deadline", "tmux"
  wsteady,      \* history: the pane has changed at every tick since the call
  wfell,        \* history: the timestamp loop was left for the hash loop
  wlog,         \* history: the tmux queries of this call, in order
  cres          \* what the calling command made of the result

wvars == <<now, pcontent, ptlast, wpc, wq, wtimeout, wdeadline, lastActivity, lastHash,
           lastChange, wake, wres, wwhy, wsteady, wfell, wlog, cres>>

VARIABLES
  \* -- the follow command's loop and the pane it polls
  fpc,        \* where follow stands: "idle", "loop", "done"
  fopts,      \* the flags: lines, fromStart, once
  fbuf,       \* the lines the pane has printed, oldest first
  fprev,      \* prev
  fprevCount, \* prevCount
  finit,      \* initialized
  femit,      \* the lines the last iteration emitted
  fnew,       \* history: the lines printed since the last capture
  fdue,       \* history: the lines printed between the last two captures
  ffirst,     \* history: the last iteration was the first
  fover,      \* history: more lines than the limit came between two captures
  ferr        \* the error follow returned

fvars == <<fpc, fopts, fbuf, fprev, fprevCount, finit, femit, fnew, fdue, ffirst, fover, ferr>>

VARIABLES
  \* -- diffLines applied to a pair of line buffers
  dpc,      \* "ready", "done"
  dprev,    \* prev
  dcurr,    \* curr
  dout      \* what diffLines returned

dvars == <<dpc, dprev, dcurr, dout>>

VARIABLES
  \* -- the validation of one pane target
  tpc,      \* "ready", "done"
  ttarget,  \* the target
  tres      \* validatePaneTarget's error and what parseFormattedPaneID makes of it

tvars == <<tpc, ttarget, tres>>

VARIABLES
  \* -- the alias file, an alias set or unset and a concurrent loadAliases
  afile,    \* the alias file
  apc,      \* where the mutation stands: "idle", "start", "save", "write", "done"
  aop,      \* the mutation: set or unset, the name, the target
  amap,     \* aliases of the mutating command
  aerr,     \* the error the mutating command returned
  lpc,      \* the other invocation: "idle", "ready", "done"
  lres,     \* what its loadAliases returned
  aold,     \* history: the mapping in the file before the mutation
  lmid      \* history: the other invocation loaded while the file was rewritten

avars == <<afile, apc, aop, amap, aerr, lpc, lres, aold, lmid>>

VARIABLES
  \* -- one stop or kill invocation, after its target is resolved
  spc,      \* "idle", "start", "wait", "decide", "emit", "done"
  sopts,    \* the command, the target, --kill, --dry-run, --yes, structured output
  sself,    \* the pane the tool runs in (empty: not inside tmux)
  slog,     \* the tmux commands issued and tmux.WaitIdle calls made, in order
  swaitErr, \* waitErr
  sresult,  \* result (stopResult, killResult)
  sout,     \* the result as written
  sret      \* the error RunE returned

svars == <<spc, sopts, sself, slog, swaitErr, sresult, sout, sret>>

\* The variables each part of the model leaves alone.
exceptX == <<rvars, wvars, fvars, dvars, tvars, avars, svars>>

exceptR == <<xvars, wvars, fvars, dvars, tvars, avars, svars>>

exceptW == <<xvars, rvars, fvars, dvars, tvars, avars, svars>>

exceptF == <<xvars, rvars, wvars, dvars, tvars, avars, svars>>

exceptD == <<xvars, rvars, wvars, fvars, tvars, avars, svars>>

exceptT == <<xvars, rvars, wvars, fvars, dvars, avars, svars>>

exceptA == <<xvars, rvars, wvars, fvars, dvars, tvars, svars>>

exceptS == <<xvars, rvars, wvars, fvars, dvars, tvars, avars>>

\* ------------------------------------------------- extractor harness
\* The line shapes a capture is written from: blank, plain output, a line
\* holding the start tag, the end tag, exit-tag lines with a code, and an
\* exit-tag line whose rest is no integer.
XLineSet ==
  { <<>>, <<"a">>, <<"a", "S">>, <<"E">>, <<"X", "7">>, <<"X", "3">>, <<"X", "a">> }

XArgs(s, e, x, p) == [startTag |-> s, endTag |-> e, exitTag |-> x, parseExit |-> p]

\* The calls made: full tags with and without exit parsing, and each tag empty.
XInputs ==
  { XArgs(<<"S">>, <<"E">>, <<"X">>, TRUE), XArgs(<<"S">>, <<"E">>, <<"X">>, FALSE),
    XArgs(<<>>, <<"E">>, <<"X">>, TRUE), XArgs(<<"S">>, <<>>, <<"X">>, TRUE),
    XArgs(<<"S">>, <<"E">>, <<>>, TRUE) }

XNoArgs == XArgs(<<>>, <<>>, <<>>, FALSE)

\* No call of extractExitFromLines made.
XNoExit ==
  [first |-> [lines |-> <<>>, code |-> <<>>, found |-> FALSE],
   second |-> [lines |-> <<>>, code |-> <<>>, found |-> FALSE]]

XInit ==
  /\ xpc = "build"
  /\ xT = <<>>
  /\ xLines = <<>>
  /\ xNl = FALSE
  /\ xin = XNoArgs
  /\ xres = NotFound(<<>>)
  /\ xex = XNoExit

\* The pane prints one more complete line.
XAppendLine ==
  /\ xpc = "build"
  /\ Len(xLines) < MaxLines
  /\ \E l \in XLineSet :
       /\ xT' = xT \o l \o <<NL>>
       /\ xLines' = Append(xLines, l)
  /\ xNl' = TRUE
  /\ UNCHANGED <<xpc, xin, xres, xex>>
  /\ UNCHANGED exceptX

\* The capture ends in a line that has no newline yet.
XAppendTail ==
  /\ xpc = "build"
  /\ Len(xLines) < MaxLines
  /\ \E l \in XLineSet \ {<<>>} :
       /\ xT' = xT \o l
       /\ xLines' = Append(xLines, l)
  /\ xNl' = FALSE
  /\ xpc' = "tail"
  /\ UNCHANGED <<xin, xres, xex>>
  /\ UNCHANGED exceptX

\* extractRunWindow is called on the text.
XApply ==
  /\ xpc \in {"build", "tail"}
  /\ \E in \in XInputs :
       /\ xin' = in
       /\ xres' = extractRunWindow(xT, in.startTag, in.endTag, in.exitTag, in.parseExit)
  /\ xpc' = "done"
  /\ UNCHANGED <<xT, xLines, xNl, xex>>
  /\ UNCHANGED exceptX

\* extractExitFromLines is called on the lines of the text (run.go:167), and
\* once more on the lines it returned.
XExitTwice ==
  /\ xpc \in {"build", "tail"}
  /\ \E in \in XInputs :
       LET first == extractExitFromLines(splitLines(xT), in.exitTag)
       IN /\ xin' = in
          /\ xex' = [first |-> first,
                     second |-> extractExitFromLines(first.lines, in.exitTag)]
  /\ xpc' = "exit"
  /\ UNCHANGED <<xT, xLines, xNl, xres>>
  /\ UNCHANGED exceptX

XNext == XAppendLine \/ XAppendTail \/ XApply \/ XExitTwice

\* ================================================= the run invocation
\* The capture limit given with --lines when one is given (0: unlimited).
RunLines == 3

Formats == {"table", "json", "yaml", "quiet"}

ROpts ==
  [exitCode : BOOLEAN, segment : BOOLEAN, exitPropagate : BOOLEAN,
   lines : {0, RunLines}, format : Formats, exitTag : {DefaultExitTag, <<>>}]

\* The --pane arguments tried: none, a pane id, a text that is no pane id.
PaneArgs == { <<>>, <<" ", "s", ":", "1", ".", "0">>, <<"s", ".", "1">> }

\* Nothing to resolve a selector with: no alias file, no current pane, no
\* active pane.
Env0 == [file |-> NoFile, current |-> <<>>, currentErr |-> Nil, active |-> <<>>,
         panesErr |-> Nil]

RCall(arg, env) == [arg |-> arg, env |-> env]

\* The --pane selectors tried, each with what it is resolved in: an alias
\* that is not there, one that names no pane id, one in a file only partly
\* written, a name that is no alias name; @active without and with an active
\* pane and with tmux failing; @current without a current pane.
SelectorCalls ==
  { RCall(<<"@", "w">>, Env0),
    RCall(<<"@", "w">>, [Env0 EXCEPT !.file =
             FileOf(MarshalIndent([n \in {<<"w">>} |-> <<"s", ".", "1">>]))]),
    RCall(<<"@", "w">>, [Env0 EXCEPT !.file = FileOf(<<JOpen>>)]),
    RCall(<<"@">>, Env0),
    RCall(SelActive, Env0),
    RCall(SelActive, [Env0 EXCEPT !.active = << <<"s", ":", "1", ".", "0">> >>]),
    RCall(SelActive, [Env0 EXCEPT !.panesErr = ErrNoTmux]),
    RCall(SelCurrent, Env0) }

RCalls == {RCall(a, Env0) : a \in PaneArgs} \cup SelectorCalls

\* The user's commands: one line of output, exit status 0 or 7.
RCmds == { [out |-> <<"a", NL>>, status |-> 0], [out |-> <<"a", NL>>, status |-> 7] }

\* Run ids: "1" was drawn by an earlier run, newRunID draws another.
OldRunID == "1"

FreshRunIDs == {"2"}

\* All that a script prints when it runs to its end, from shell state st.
RECURSIVE ShellRun(_, _)
ShellRun(script, st) ==
  IF script = <<>> THEN <<>>
  ELSE ShellExec(script[1], st).out \o ShellRun(Tail(script), ShellExec(script[1], st))

ShellStart == [last |-> 0, status |-> <<>>, out |-> <<>>]

Prompt == <<"$">>

\* What an earlier run with --exit-code left in the pane: its echo, markers,
\* output and exit line (status 3).
OldScript ==
  wrapCommandForRun([out |-> <<"b", NL>>, status |-> 3], StartTagOf(OldRunID),
                    EndTagOf(OldRunID), DefaultExitTag, TRUE)

OldRunText == Prompt \o EchoOf(OldScript) \o <<NL>> \o ShellRun(OldScript, ShellStart)

Scrollbacks == { <<>>, OldRunText }

NoEmit ==
  [kind |-> "none", output |-> <<>>, exit_code |-> <<>>, exit_found |-> FALSE,
   wait_error |-> Nil]

\* The run variables while no run is modelled.
RIdle ==
  /\ rpc = "idle"
  /\ ropts = [exitCode |-> FALSE, segment |-> FALSE, exitPropagate |-> FALSE,
              lines |-> 0, format |-> "table", exitTag |-> DefaultExitTag]
  /\ rarg = <<>> /\ renv = Env0 /\ rcmd = [out |-> <<>>, status |-> 0]
  /\ rtags = [startTag |-> <<>>, endTag |-> <<>>]
  /\ ptyped = <<>> /\ pentered = FALSE
  /\ paneOld = <<>> /\ paneEcho = <<>> /\ paneOut = <<>>
  /\ shq = <<>> /\ sh = ShellStart
  /\ waitErr = Nil /\ capt = <<>> /\ codePtr = <<>> /\ found = FALSE
  /\ windowFound = FALSE /\ ncap = 0 /\ rcaps = <<>> /\ emitted = NoEmit /\ retErr = Nil

RInit ==
  /\ rpc = "start"
  /\ ropts \in ROpts
  /\ \E c \in RCalls : rarg = c.arg /\ renv = c.env
  /\ rcmd \in RCmds
  /\ paneOld \in Scrollbacks
  /\ rtags = [startTag |-> <<>>, endTag |-> <<>>]
  /\ ptyped = <<>> /\ pentered = FALSE
  /\ paneEcho = <<>> /\ paneOut = <<>>
  /\ shq = <<>> /\ sh = ShellStart
  /\ waitErr = Nil /\ capt = <<>> /\ codePtr = <<>> /\ found = FALSE
  /\ windowFound = FALSE /\ ncap = 0 /\ rcaps = <<>> /\ emitted = NoEmit /\ retErr = Nil

PaneText == paneOld \o paneEcho \o paneOut

Sentinels == ropts.exitCode \/ ropts.segment

\* RunE returns err.
RunFail(err) == rpc' = "done" /\ retErr' = err

\* resolvePaneTarget and validatePaneTarget (run.go:117-123).
RunResolve ==
  /\ rpc = "start"
  /\ LET r == resolvePaneTarget(rarg, renv)
     IN IF r.err # Nil THEN RunFail(r.err)
        ELSE IF validatePaneTarget(r.target) # Nil
          THEN RunFail(validatePaneTarget(r.target))
        ELSE rpc' = "send" /\ UNCHANGED retErr
  /\ UNCHANGED <<ropts, rarg, renv, rcmd, rtags, ptyped, pentered, paneOld, paneEcho, paneOut,
                 shq, sh, waitErr, capt, codePtr, found, windowFound, ncap, rcaps, emitted>>
  /\ UNCHANGED exceptR

\* The text RunE sends: the wrapped command with sentinels, else the command.
RunText(runID) ==
  IF Sentinels
  THEN wrapCommandForRun(rcmd, StartTagOf(runID), EndTagOf(runID), ropts.exitTag,
                         ropts.exitCode)
  ELSE << StCommand(rcmd) >>

\* Tag generation, wrapping and tmux.SendLiteral (run.go:125-137).  The send
\* may fail before anything is typed, or after the text and before Enter.
RunSend ==
  /\ rpc = "send"
  /\ \E runID \in FreshRunIDs :
       /\ rtags' = IF Sentinels
                   THEN [startTag |-> StartTagOf(runID), endTag |-> EndTagOf(runID)]
                   ELSE rtags
       /\ \/ /\ ptyped' = RunText(runID) /\ pentered' = TRUE
             /\ shq' = RunText(runID)
             /\ rpc' = "wait" /\ UNCHANGED retErr
          \/ /\ \E err \in {ErrNoTmux} \cup {ErrSendKeys(c) : c \in ExecCauses} :
                  RunFail(err)
             /\ UNCHANGED <<ptyped, pentered, shq>>
          \/ /\ \E c \in ExecCauses : RunFail(ErrSendEnter(c))
             /\ ptyped' = RunText(runID)
             /\ UNCHANGED <<pentered, shq>>
  /\ UNCHANGED <<ropts, rarg, renv, rcmd, paneOld, paneEcho, paneOut, sh, waitErr, capt,
                 codePtr, found, windowFound, ncap, rcaps, emitted>>
  /\ UNCHANGED exceptR

\* The pane's terminal echoes the typed text.
PaneEcho ==
  /\ ptyped # <<>> /\ paneEcho = <<>>
  /\ paneEcho' = Prompt \o EchoOf(ptyped) \o (IF pentered THEN <<NL>> ELSE <<>>)
  /\ UNCHANGED <<rpc, ropts, rarg, renv, rcmd, rtags, ptyped, pentered, paneOld, paneOut, shq,
                 sh, waitErr, capt, codePtr, found, windowFound, ncap, rcaps, emitted, retErr>>
  /\ UNCHANGED exceptR

\* The pane's shell runs the next statement of the entered text.
ShellStep ==
  /\ pentered /\ paneEcho # <<>> /\ shq # <<>>
  /\ LET r == ShellExec(shq[1], sh)
     IN /\ sh' = [last |-> r.last, status |-> r.status, out |-> <<>>]
        /\ paneOut' = paneOut \o r.out
  /\ shq' = Tail(shq)
  /\ UNCHANGED <<rpc, ropts, rarg, renv, rcmd, rtags, ptyped, pentered, paneOld, paneEcho,
                 waitErr, capt, codePtr, found, windowFound, ncap, rcaps, emitted, retErr>>
  /\ UNCHANGED exceptR

\* What tmux.WaitIdle can return: nil, the timeout, or a failed tmux call.
WaitOutcomes == {Nil, ErrTimeout, ErrNoTmux} \cup {ErrCapture(c) : c \in ExecCauses}

\* What tmux.Capture can fail with.
CaptureErrors == {ErrNoTmux} \cup {ErrCapture(c) : c \in ExecCauses}

\* tmux.WaitIdle returns (run.go:143); its outcome is kept, not returned.
RunWait ==
  /\ rpc = "wait"
  /\ \E w \in WaitOutcomes : waitErr' = w
  /\ rpc' = "capture"
  /\ UNCHANGED <<ropts, rarg, renv, rcmd, rtags, ptyped, pentered, paneOld, paneEcho, paneOut,
                 shq, sh, capt, codePtr, found, windowFound, ncap, rcaps, emitted, retErr>>
  /\ UNCHANGED exceptR

\* run.go:160-176: the window's text and code are taken when a window was
\* found; with --exit-code and no code yet, the whole text kept in capture is
\* searched for an exit line.
Settle(s, ex, exitCode, exitTag) ==
  LET capture1 == IF ex.windowFound THEN ex.clean ELSE s
      code1 == IF ex.windowFound THEN ex.code ELSE <<>>
      found1 == IF ex.windowFound THEN ex.found ELSE FALSE
      hadTrailingNewline == HasSuffix(capture1, <<NL>>)
      fb == extractExitFromLines(splitLines(capture1), exitTag)
      joined == Join(fb.lines, <<NL>>)
  IN IF exitCode /\ ~found1 /\ fb.found
     THEN [capture |-> IF hadTrailingNewline THEN joined \o <<NL>> ELSE joined,
           code |-> fb.code, found |-> TRUE]
     ELSE [capture |-> capture1, code |-> code1, found |-> found1]

\* Mutant of needFullCapture: a miss is retried also after a full capture.
needFullCaptureAlways(wFound, lines) == ~wFound

\* run.go:155: the capture is taken again, in full, after a limited one
\* that did not show the window.
needFullCapture(wFound, lines) == ~wFound /\ lines > 0

\* One tmux.Capture(target, lines) in the history.
CaptureCall(lines, ok, text) == [lines |-> lines, ok |-> ok, text |-> text]

RunExtract(text) ==
  extractRunWindow(text, rtags.startTag, rtags.endTag, ropts.exitTag, ropts.exitCode)

\* tmux.Capture(target, lines) and the first extraction (run.go:145-155).
RunCapture ==
  /\ rpc = "capture"
  /\ ncap' = ncap + 1
  /\ \/ /\ \E err \in CaptureErrors : RunFail(err)
        /\ rcaps' = Append(rcaps, CaptureCall(ropts.lines, FALSE, <<>>))
        /\ UNCHANGED <<capt, codePtr, found, windowFound>>
     \/ LET s == Capture(PaneText, ropts.lines)
            ex == RunExtract(s)
            st == Settle(s, ex, ropts.exitCode, ropts.exitTag)
        IN /\ UNCHANGED retErr
           /\ rcaps' = Append(rcaps, CaptureCall(ropts.lines, TRUE, s))
           /\ IF ~Sentinels
              THEN /\ capt' = s /\ rpc' = "emit"
                   /\ UNCHANGED <<codePtr, found, windowFound>>
              ELSE IF needFullCapture(ex.windowFound, ropts.lines)
              THEN /\ capt' = s /\ rpc' = "retry" /\ windowFound' = FALSE
                   /\ UNCHANGED <<codePtr, found>>
              ELSE /\ capt' = st.capture /\ codePtr' = st.code /\ found' = st.found
                   /\ windowFound' = ex.windowFound
                   /\ rpc' = "emit"
  /\ UNCHANGED <<ropts, rarg, renv, rcmd, rtags, ptyped, pentered, paneOld, paneEcho, paneOut,
                 shq, sh, waitErr, emitted>>
  /\ UNCHANGED exceptR

\* The second, unlimited capture after a miss (run.go:155-159): a failure of
\* it is passed over and the first extraction stands.
RunRetry ==
  /\ rpc = "retry"
  /\ ncap' = ncap + 1
  /\ \E ok \in BOOLEAN :
       LET ex == IF ok THEN RunExtract(Capture(PaneText, 0)) ELSE NotFound(capt)
           st == Settle(capt, ex, ropts.exitCode, ropts.exitTag)
       IN /\ capt' = st.capture /\ codePtr' = st.code /\ found' = st.found
          /\ windowFound' = ex.windowFound
          /\ rcaps' = Append(rcaps, CaptureCall(0, ok, IF ok THEN Capture(PaneText, 0) ELSE <<>>))
  /\ rpc' = "emit"
  /\ UNCHANGED <<ropts, rarg, renv, rcmd, rtags, ptyped, pentered, paneOld, paneEcho, paneOut,
                 shq, sh, waitErr, emitted, retErr>>
  /\ UNCHANGED exceptR

\* Mutant of RunResultOf: the exit code is left out of the result.
RunResultNoCode(kind) ==
  [kind |-> kind, output |-> capt, exit_code |-> <<>>, exit_found |-> FALSE,
   wait_error |-> waitErr]

\* Mutant of RunResultOf: the wait error is left out of the result.
RunResultNoWait(kind) ==
  [kind |-> kind, output |-> capt, exit_code |-> codePtr, exit_found |-> found,
   wait_error |-> Nil]

\* The runResult RunE encodes for --output json and yaml.
RunResultOf(kind) ==
  [kind |-> kind, output |-> capt, exit_code |-> codePtr, exit_found |-> found,
   wait_error |-> waitErr]

\* The output switch (run.go:179-229): the result is written in the chosen
\* format; a failed write of json, yaml or the table text is returned.
RunEmit ==
  /\ rpc = "emit"
  /\ \/ /\ ropts.format \in {"json", "yaml"}
        /\ \/ emitted' = RunResultOf(ropts.format) /\ rpc' = "return" /\ UNCHANGED retErr
           \/ RunFail(ErrWrite) /\ UNCHANGED emitted
     \/ /\ ropts.format = "quiet"
        /\ emitted' = [kind |-> "quiet", output |-> <<>>,
                       exit_code |-> IF ropts.exitCode THEN codePtr ELSE <<>>,
                       exit_found |-> FALSE, wait_error |-> Nil]
        /\ rpc' = "return" /\ UNCHANGED retErr
     \/ /\ ropts.format = "table"
        /\ \/ /\ emitted' = [kind |-> "table", output |-> capt,
                             exit_code |-> IF ropts.exitCode THEN codePtr ELSE <<>>,
                             exit_found |-> FALSE, wait_error |-> Nil]
              /\ rpc' = "return" /\ UNCHANGED retErr
           \/ RunFail(ErrWrite) /\ UNCHANGED emitted
  /\ UNCHANGED <<ropts, rarg, renv, rcmd, rtags, ptyped, pentered, paneOld, paneEcho, paneOut,
                 shq, sh, waitErr, capt, codePtr, found, windowFound, ncap, rcaps>>
  /\ UNCHANGED exceptR

\* return combineRunErrors(...) (run.go:195, 211, 217, 230).
RunReturn ==
  /\ rpc = "return"
  /\ retErr' = combineRunErrors(waitErr, ropts.exitPropagate, ropts.exitCode, codePtr, found)
  /\ rpc' = "done"
  /\ UNCHANGED <<ropts, rarg, renv, rcmd, rtags, ptyped, pentered, paneOld, paneEcho, paneOut,
                 shq, sh, waitErr, capt, codePtr, found, windowFound, ncap, rcaps, emitted>>
  /\ UNCHANGED exceptR

RNext ==
  \/ RunResolve \/ RunSend \/ RunWait \/ RunCapture \/ RunRetry \/ RunEmit \/ RunReturn
  \/ PaneEcho \/ ShellStep

\* ============================================================ WaitIdle
\* poll := 300 * time.Millisecond, in tenths of a second.
PollInterval == 3

\* pane_activity is in whole seconds: ten tenths.
ActivityRes == 10

\* The clock stops here.
MaxTime == 34

\* When WaitIdle is called: on a second's boundary, in the middle, at the end.
StartTimes == {10, 15, 19}

\* Quiet periods, an --idle of zero included (run.go:143 and
\* wait.go:44 pass the flag on as it is).
IdleDurs == {0, 5, 10}

Timeouts == {6, 12}

Contents == {"a", "b", "c"}

\* time.Unix(secs, 0) of the pane's activity time (PaneActivity).
Stamp(t) == (t \div ActivityRes) * ActivityRes

\* What a successful PaneActivity call can return for a target whose pane
\* last changed at t: that pane's activity time, or an older one (the target
\* names a window and its active pane is now one that has been quiet longer).
Readings(t) ==
  {Stamp(t)} \cup (IF Stamp(t) >= ActivityRes THEN {Stamp(t) - ActivityRes} ELSE {})

\* Mutant of KeepLater: the reading of this poll replaces the last one.
KeepLatest(current, last) == current

\* if current.After(lastActivity) { lastActivity = current }
KeepLater(current, last) == IF current > last THEN current ELSE last

\* Mutant of pastDeadline: the deadline is never looked at.
pastDeadlineNever(t, deadline) == FALSE

\* time.Now().After(deadline)
pastDeadline(t, deadline) == t > deadline

\* Mutant of afterSleep: the sleep is twice the poll interval.
afterSleepLong(t) == t + 2 * PollInterval

\* When a time.Sleep(poll) started at t is over.
afterSleep(t) == t + PollInterval

\* One tmux query of WaitIdle: the first PaneActivity call ("first"), a
\* PaneActivity call of the timestamp loop ("ts") or a Capture of the hash
\* loop ("hash"); r is the activity time read, new whether the loop took the
\* observation for new output, stale whether r is older than the activity
\* time of the pane's last change.
Query(t, kind, ok, r, new, stale) ==
  [t |-> t, kind |-> kind, ok |-> ok, r |-> r, new |-> new, stale |-> stale]

\* sha1.Sum of a captured text.
Sha1(text) == <<"sha1", text>>

NoReport == [cmd |-> "none", idle |-> FALSE, timedOut |-> FALSE, killed |-> FALSE,
             err |-> Nil]

\* The wait variables while no wait is modelled.
WIdle ==
  /\ now = 0 /\ pcontent = "a" /\ ptlast = 0 /\ wpc = "idle"
  /\ wq = 0 /\ wtimeout = 0 /\ wdeadline = 0 /\ lastActivity = 0
  /\ lastHash = "zero" /\ lastChange = 0 /\ wake = 0 /\ wres = Nil /\ wwhy = ""
  /\ wsteady = FALSE /\ wfell = FALSE /\ wlog = <<>> /\ cres = NoReport

\* A command is about to call WaitIdle on a pane that has just changed or
\* has been quiet for a second and more.
WInit ==
  /\ now \in StartTimes /\ pcontent = "a" /\ ptlast \in {0, now} /\ wpc = "call"
  /\ wq \in IdleDurs /\ wtimeout \in Timeouts
  /\ wdeadline = 0 /\ lastActivity = 0
  /\ lastHash = "zero" /\ lastChange = 0 /\ wake = 0 /\ wres = Nil /\ wwhy = ""
  /\ wsteady = FALSE /\ wfell = FALSE /\ wlog = <<>> /\ cres = NoReport

\* WaitIdle returns err.
WaitReturn(err, why) == wpc' = "done" /\ wres' = err /\ wwhy' = why

\* WaitIdle up to its first loop (part_015:977-983, 1001-1002): ensureTmux,
\* the deadline, and the first PaneActivity call, which picks the loop.
WaitCall ==
  /\ wpc = "call"
  /\ wsteady' = (ptlast = now)
  /\ \/ /\ WaitReturn(ErrNoTmux, "tmux")
        /\ UNCHANGED <<wdeadline, lastActivity, lastHash, lastChange, wake, wlog>>
     \/ /\ wdeadline' = now + wtimeout
        /\ wake' = now
        /\ \/ \E r \in Readings(ptlast) :
                /\ lastActivity' = r /\ wpc' = "ts"
                /\ wlog' = <<Query(now, "first", TRUE, r, FALSE, r # Stamp(ptlast))>>
                /\ UNCHANGED <<lastHash, lastChange>>
           \/ /\ lastChange' = now /\ lastHash' = "zero" /\ wpc' = "hash"
              /\ wlog' = <<Query(now, "first", FALSE, 0, FALSE, FALSE)>>
              /\ UNCHANGED lastActivity
        /\ UNCHANGED <<wres, wwhy>>
  /\ UNCHANGED <<now, pcontent, ptlast, wq, wtimeout, wfell, cres>>
  /\ UNCHANGED exceptW

\* One iteration of the timestamp loop (part_015:984-999).
TsPoll ==
  /\ wpc = "ts" /\ now = wake
  /\ IF pastDeadline(now, wdeadline)
     THEN /\ WaitReturn(ErrTimeout, "deadline")
          /\ UNCHANGED <<lastActivity, lastHash, lastChange, wake, wfell, wlog>>
     ELSE \/ \* PaneActivity failed: break, on to the hash loop
             /\ wpc' = "hash" /\ lastHash' = "zero" /\ lastChange' = now
             /\ wfell' = TRUE
             /\ wlog' = Append(wlog, Query(now, "ts", FALSE, 0, FALSE, FALSE))
             /\ UNCHANGED <<lastActivity, wake, wres, wwhy>>
          \/ \E current \in Readings(ptlast) :
               LET la == KeepLater(current, lastActivity)
               IN /\ lastActivity' = la
                  /\ wlog' = Append(wlog, Query(now, "ts", TRUE, current,
                                                current > lastActivity,
                                                current # Stamp(ptlast)))
                  /\ IF now - la >= wq
                     THEN WaitReturn(Nil, "idle") /\ UNCHANGED wake
                     ELSE wake' = afterSleep(now) /\ UNCHANGED <<wpc, wres, wwhy>>
                  /\ UNCHANGED <<lastHash, lastChange, wfell>>
  /\ UNCHANGED <<now, pcontent, ptlast, wq, wtimeout, wdeadline, wsteady, cres>>
  /\ UNCHANGED exceptW

\* One iteration of the hash loop (part_015:1003-1021).
HashPoll ==
  /\ wpc = "hash" /\ now = wake
  /\ IF pastDeadline(now, wdeadline)
     THEN /\ WaitReturn(ErrTimeout, "deadline")
          /\ UNCHANGED <<lastHash, lastChange, wake, wlog>>
     ELSE \/ /\ \E err \in CaptureErrors : WaitReturn(err, "tmux")
             /\ wlog' = Append(wlog, Query(now, "hash", FALSE, 0, FALSE, FALSE))
             /\ UNCHANGED <<lastHash, lastChange, wake>>
          \/ LET h == Sha1(pcontent)
             IN /\ wlog' = Append(wlog, Query(now, "hash", TRUE, 0, h # lastHash, FALSE))
                /\ IF h # lastHash
                   THEN /\ lastHash' = h /\ lastChange' = now
                        /\ wake' = afterSleep(now)
                        /\ UNCHANGED <<wpc, wres, wwhy>>
                   ELSE IF now - lastChange >= wq
                   THEN /\ WaitReturn(Nil, "idle")
                        /\ UNCHANGED <<lastHash, lastChange, wake>>
                   ELSE /\ wake' = afterSleep(now)
                        /\ UNCHANGED <<lastHash, lastChange, wpc, wres, wwhy>>
  /\ UNCHANGED <<now, pcontent, ptlast, wq, wtimeout, wdeadline, lastActivity, wsteady,
                 wfell, cres>>
  /\ UNCHANGED exceptW

\* WaitIdle sleeps (time.Sleep(poll)) and the clock may move.
Sleeping == wpc \in {"ts", "hash"} /\ now < wake /\ now < MaxTime

\* A tenth of a second passes and the pane stays as it is.
TickQuiet ==
  /\ Sleeping
  /\ now' = now + 1
  /\ wsteady' = FALSE
  /\ UNCHANGED <<pcontent, ptlast, wpc, wq, wtimeout, wdeadline, lastActivity, lastHash,
                 lastChange, wake, wres, wwhy, wfell, wlog, cres>>
  /\ UNCHANGED exceptW

\* A tenth of a second passes and the pane shows something else.
TickChange ==
  /\ Sleeping
  /\ now' = now + 1
  /\ \E c \in Contents \ {pcontent} : pcontent' = c
  /\ ptlast' = now + 1
  /\ UNCHANGED <<wpc, wq, wtimeout, wdeadline, lastActivity, lastHash, lastChange, wake,
                 wres, wwhy, wsteady, wfell, wlog, cres>>
  /\ UNCHANGED exceptW

\* The wait command's use of the result (wait.go:44-53).
WaitReport ==
  /\ wpc = "done" /\ cres = NoReport
  /\ cres' = [cmd |-> "wait", idle |-> (wres = Nil),
              timedOut |-> (wres # Nil /\ isTimeout(wres)), killed |-> FALSE,
              err |-> wres]
  /\ UNCHANGED <<now, pcontent, ptlast, wpc, wq, wtimeout, wdeadline, lastActivity,
                 lastHash, lastChange, wake, wres, wwhy, wsteady, wfell, wlog>>
  /\ UNCHANGED exceptW

\* What tmux.Kill can fail with: its own refusal, no tmux, the tmux call.
KillErrors ==
  {<<"refusing", "to", "kill", "the", "current", "pane">>, ErrNoTmux} \cup ExecCauses

\* The stop command's use of the result (stop.go:64-78): a timeout is
\* followed by tmux.Kill under --kill, any other error is returned at once.
StopEscalate ==
  /\ wpc = "done" /\ cres = NoReport
  /\ \E killOnTimeout \in BOOLEAN :
       IF wres # Nil /\ isTimeout(wres)
       THEN IF killOnTimeout
            THEN \/ cres' = [cmd |-> "stop", idle |-> FALSE, timedOut |-> TRUE,
                             killed |-> TRUE, err |-> wres]
                 \/ \E e \in KillErrors :
                      cres' = [cmd |-> "stop", idle |-> FALSE, timedOut |-> TRUE,
                               killed |-> FALSE, err |-> e]
            ELSE cres' = [cmd |-> "stop", idle |-> FALSE, timedOut |-> TRUE,
                          killed |-> FALSE, err |-> wres]
       ELSE cres' = [cmd |-> "stop", idle |-> FALSE, timedOut |-> FALSE,
                     killed |-> FALSE, err |-> wres]
  /\ UNCHANGED <<now, pcontent, ptlast, wpc, wq, wtimeout, wdeadline, lastActivity,
                 lastHash, lastChange, wake, wres, wwhy, wsteady, wfell, wlog>>
  /\ UNCHANGED exceptW

WNext ==
  \/ WaitCall \/ TsPoll \/ HashPoll \/ TickQuiet \/ TickChange
  \/ WaitReport \/ StopEscalate

\* ============================================================== follow
\* The capture limit given with --lines when one is given (0: unlimited).
FollowLines == 2

\* The pane prints no more than this many lines.
MaxBuf == 4

FollowLineSet == { <<"a">>, <<"b">> }

\* --from-start without --lines sets lines to 0 (follow.go:56-58); lines > 0
\* with fromStart is --lines given on the command line.
FOpts == [lines : {0, FollowLines}, fromStart : BOOLEAN, once : BOOLEAN]

\* The text of the pane: every line ended by a newline.
RECURSIVE TextOf(_)
TextOf(lines) ==
  IF lines = <<>> THEN <<>> ELSE lines[1] \o <<NL>> \o TextOf(Tail(lines))

\* The follow variables while no follow is modelled.
FIdle ==
  /\ fpc = "idle" /\ fopts = [lines |-> 0, fromStart |-> FALSE, once |-> FALSE]
  /\ fbuf = <<>> /\ fprev = <<>> /\ fprevCount = 0 /\ finit = FALSE
  /\ femit = <<>> /\ fnew = <<>> /\ fdue = <<>> /\ ffirst = FALSE /\ fover = FALSE /\ ferr = Nil

\* follow is about to enter its loop (follow.go:74-83) on a pane with
\* nothing, or some lines, on it.
FInit ==
  /\ fpc = "loop" /\ fopts \in FOpts
  /\ fbuf \in {<<>>, << <<"a">> >>, << <<"a">>, <<"a">> >>, << <<"a">>, <<"b">> >>}
  /\ fprev = <<>> /\ fprevCount = 0 /\ finit = FALSE
  /\ femit = <<>> /\ fnew = <<>> /\ fdue = <<>> /\ ffirst = FALSE /\ fover = FALSE /\ ferr = Nil

\* The pane prints one more line.
FPaneLine ==
  /\ fpc = "loop" /\ Len(fbuf) < MaxBuf
  /\ \E l \in FollowLineSet : fbuf' = Append(fbuf, l) /\ fnew' = Append(fnew, l)
  /\ UNCHANGED <<fpc, fopts, fprev, fprevCount, finit, femit, fdue, ffirst, fover, ferr>>
  /\ UNCHANGED exceptF

\* One iteration of the loop (follow.go:85-118): capture, diff, emit, and
\* the checks of --once and of the deadline before the wait for the ticker.
FollowPoll ==
  /\ fpc = "loop"
  /\ \/ /\ \E err \in CaptureErrors : ferr' = err
        /\ fpc' = "done"
        /\ UNCHANGED <<fprev, fprevCount, finit, femit, fnew, fdue, ffirst, fover>>
     \/ LET curr == splitLines(Capture(TextOf(fbuf), fopts.lines))
            byCount == diffLinesByCount(curr, fprevCount)
            emit == IF ~finit THEN (IF fopts.fromStart THEN curr ELSE <<>>)
                    ELSE IF fopts.lines = 0 THEN byCount.emit
                    ELSE diffLines(fprev, curr)
        IN /\ finit' = TRUE
           /\ ffirst' = ~finit
           /\ fprevCount' = IF fopts.lines # 0 THEN fprevCount
                            ELSE IF ~finit THEN Len(curr) ELSE byCount.prevCount
           /\ fprev' = IF fopts.lines = 0 THEN fprev ELSE curr
           /\ fover' = (fover \/ (finit /\ fopts.lines > 0 /\ Len(fnew) > fopts.lines))
           /\ \/ /\ femit' = emit /\ ferr' = Nil
                 /\ \/ fpc' = "done"
                    \/ ~fopts.once /\ fpc' = "loop"
              \/ /\ emit # <<>> /\ femit' = <<>> /\ ferr' = ErrWrite /\ fpc' = "done"
           /\ fnew' = <<>> /\ fdue' = fnew
  /\ UNCHANGED <<fopts, fbuf>>
  /\ UNCHANGED exceptF

FNext == FPaneLine \/ FollowPoll

\* ======================================================= diffLines alone
\* Line buffers of up to DiffLen lines.
DiffLen == 3

DiffBuffers == UNION {[1..n -> FollowLineSet] : n \in 0..DiffLen}

DIdle == dpc = "idle" /\ dprev = <<>> /\ dcurr = <<>> /\ dout = <<>>

DInit == dpc = "ready" /\ dprev \in DiffBuffers /\ dcurr \in DiffBuffers /\ dout = <<>>

\* diffLines(prev, curr) is called (follow.go:104).
DApply ==
  /\ dpc = "ready"
  /\ dout' = diffLines(dprev, dcurr)
  /\ dpc' = "done"
  /\ UNCHANGED <<dprev, dcurr>>
  /\ UNCHANGED exceptD

DNext == DApply

\* ================================================= validation alone
\* Targets of up to TargetLen characters.
TargetLen == 4

TargetChars == {"s", "1", ":", "."}

Targets == UNION {[1..n -> TargetChars] : n \in 0..TargetLen}

NoValidation == [err |-> Nil, parsed |-> [session |-> <<>>, window |-> 0, pane |-> 0]]

TIdle == tpc = "idle" /\ ttarget = <<>> /\ tres = NoValidation

TInit == tpc = "ready" /\ ttarget \in Targets /\ tres = NoValidation

\* validatePaneTarget(target) is called (run.go:121), and the target taken
\* apart as the pane listings do (parseFormattedPaneID).
TApply ==
  /\ tpc = "ready"
  /\ tres' = [err |-> validatePaneTarget(ttarget), parsed |-> parseFormattedPaneID(ttarget)]
  /\ tpc' = "done"
  /\ UNCHANGED ttarget
  /\ UNCHANGED exceptT

TNext == TApply

\* ============================================== the alias file, shared
AliasNameSet == {AliasOrder[i] : i \in 1..Len(AliasOrder)}

AliasTargets == { <<"s", ":", "1", ".", "0">>, <<"s", ":", "1", ".", "1">> }

AliasMaps == UNION {[D -> AliasTargets] : D \in SUBSET AliasNameSet}

\* alias set <name> <pane> and alias unset <name>.
AliasOps ==
  [kind : {"set"}, name : AliasNameSet, target : AliasTargets]
    \cup [kind : {"unset"}, name : AliasNameSet, target : {<<>>}]

NotLoaded == [aliases |-> NoAliases, err |-> Nil]

ErrNoSpace == <<"write", "aliases.json:", "no", "space", "left", "on", "device">>

AIdle ==
  /\ afile = NoFile /\ apc = "idle"
  /\ aop = [kind |-> "unset", name |-> <<>>, target |-> <<>>]
  /\ amap = NoAliases /\ aerr = Nil /\ lpc = "idle" /\ lres = NotLoaded
  /\ aold = NoAliases /\ lmid = FALSE

\* An alias command is about to load the file, which is absent or holds a
\* mapping written before; another invocation is about to load it too.
AInit ==
  /\ afile \in {NoFile} \cup {FileOf(MarshalIndent(mp)) : mp \in AliasMaps}
  /\ apc = "start" /\ aop \in AliasOps
  /\ amap = NoAliases /\ aerr = Nil /\ lpc = "ready" /\ lres = NotLoaded
  /\ aold = loadAliases(afile).aliases /\ lmid = FALSE

\* loadAliases and the change of the map (alias.go:124-128, 175-184); unset
\* of a name that is not there returns without saving.
AliasLoad ==
  /\ apc = "start"
  /\ LET l == loadAliases(afile)
     IN IF l.err # Nil THEN aerr' = l.err /\ apc' = "done" /\ UNCHANGED amap
        ELSE IF aop.kind = "set"
          THEN /\ amap' = [n \in (DOMAIN l.aliases) \cup {aop.name} |->
                             IF n = aop.name THEN aop.target ELSE l.aliases[n]]
               /\ apc' = "save" /\ UNCHANGED aerr
        ELSE IF aop.name \notin DOMAIN l.aliases
          THEN apc' = "done" /\ amap' = l.aliases /\ UNCHANGED aerr
        ELSE /\ amap' = [n \in (DOMAIN l.aliases) \ {aop.name} |-> l.aliases[n]]
             /\ apc' = "save" /\ UNCHANGED aerr
  /\ UNCHANGED <<afile, aop, lpc, lres, aold, lmid>>
  /\ UNCHANGED exceptA

\* saveAliases, first half (alias_store.go:72-82): the map is encoded and
\* os.WriteFile opens the file itself, emptying it; or the open fails.
SaveTruncate ==
  /\ apc = "save"
  /\ \/ afile' = FileOf(<<>>) /\ apc' = "write" /\ UNCHANGED aerr
     \/ aerr' = ErrPermission("aliases.json:") /\ apc' = "done" /\ UNCHANGED afile
  /\ UNCHANGED <<aop, amap, lpc, lres, aold, lmid>>
  /\ UNCHANGED exceptA

\* saveAliases, second half: os.WriteFile writes the text into the file,
\* all at once or in pieces, or fails on the way.
SaveWrite ==
  /\ apc = "write"
  /\ LET full == MarshalIndent(amap)
     IN \/ \E k \in (Len(afile.data) + 1)..Len(full) :
             /\ afile' = FileOf(SubSeq(full, 1, k))
             /\ apc' = IF k = Len(full) THEN "done" ELSE "write"
             /\ UNCHANGED aerr
        \/ aerr' = ErrNoSpace /\ apc' = "done" /\ UNCHANGED afile
  /\ UNCHANGED <<aop, amap, lpc, lres, aold, lmid>>
  /\ UNCHANGED exceptA

\* Another invocation resolves an alias: loadAliases (target.go:54).
OtherLoad ==
  /\ lpc = "ready"
  /\ lres' = loadAliases(afile)
  /\ lmid' = (apc = "write")
  /\ lpc' = "done"
  /\ UNCHANGED <<afile, apc, aop, amap, aerr, aold>>
  /\ UNCHANGED exceptA

ANext == AliasLoad \/ SaveTruncate \/ SaveWrite \/ OtherLoad

\* ======================================================= stop and kill
\* One call of tmux in the log: the command and the error it ended with.
Call(cmd, err) == [cmd |-> cmd, err |-> err]

ErrRefuse == <<"refusing", "to", "kill", "the", "current", "pane">>

\* Mutant of Kill: the guard is left out.
KillUnguarded(target, self) ==
  {[log |-> << Call("display-message", Nil) >>, err |-> ErrNoTmux]}
    \cup {[log |-> << Call("display-message", Nil), Call("kill-pane", e) >>, err |-> e] :
            e \in {Nil} \cup ExecCauses}

\* tmux.Kill(target) (pkg/tmux) with the tool in pane self: what it issues
\* and returns.  CurrentPaneID's error is dropped and leaves self empty; so
\* does a tmux that is not found, which then fails ensureTmux.
Kill(target, self) ==
  LET refuse(cur) == cur # <<>> /\ cur = TrimSpace(target)
      after(first) ==
        {[log |-> << first >>, err |-> ErrNoTmux]}
          \cup {[log |-> << first, Call("kill-pane", e) >>, err |-> e] :
                  e \in {Nil} \cup ExecCauses}
  IN (IF refuse(self)
      THEN {[log |-> << Call("display-message", Nil) >>, err |-> ErrRefuse]}
      ELSE after(Call("display-message", Nil)))
     \cup UNION {after(Call("display-message", ErrDisplay(c))) : c \in ExecCauses}

\* Mutant of killAfterWait: --kill alone decides.
killAfterWaitAlways(werr, killOnTimeout) == killOnTimeout

\* stop.go:65-69: tmux.Kill is called for a wait error that is a timeout,
\* under --kill.
killAfterWait(werr, killOnTimeout) ==
  werr # Nil /\ isTimeout(werr) /\ killOnTimeout

PaneIds == { <<"s", ":", "1", ".", "0">>, <<"s", ":", "1", ".", "1">> }

SOpts ==
  [cmd : {"stop"}, target : PaneIds, kill : BOOLEAN, dryRun : {FALSE}, yes : {TRUE},
   structured : BOOLEAN]
    \cup [cmd : {"kill"}, target : PaneIds, kill : {FALSE}, dryRun : BOOLEAN,
          yes : BOOLEAN, structured : BOOLEAN]

NoResult ==
  [interrupted |-> FALSE, killed |-> FALSE, timedOut |-> FALSE, waitError |-> Nil,
   dryRun |-> FALSE]

NotWritten == [written |-> FALSE, result |-> NoResult]

SIdle ==
  /\ spc = "idle"
  /\ sopts = [cmd |-> "stop", target |-> <<>>, kill |-> FALSE, dryRun |-> FALSE,
              yes |-> FALSE, structured |-> FALSE]
  /\ sself = <<>> /\ slog = <<>> /\ swaitErr = Nil /\ sresult = NoResult
  /\ sout = NotWritten /\ sret = Nil

\* The target is resolved and valid; the tool runs outside tmux or in one
\* of the panes.
SInit ==
  /\ spc = "start" /\ sopts \in SOpts /\ sself \in {<<>>} \cup PaneIds
  /\ slog = <<>> /\ swaitErr = Nil /\ sresult = NoResult
  /\ sout = NotWritten /\ sret = Nil

\* RunE returns err.
SFail(err) == spc' = "done" /\ sret' = err

\* tmux.Interrupt(target) (stop.go:58-62).
StopInterrupt ==
  /\ spc = "start" /\ sopts.cmd = "stop"
  /\ \/ /\ SFail(ErrNoTmux) /\ UNCHANGED <<slog, sresult>>
     \/ /\ \E e \in ExecCauses : SFail(e) /\ slog' = Append(slog, Call("send-keys C-c", e))
        /\ UNCHANGED sresult
     \/ /\ slog' = Append(slog, Call("send-keys C-c", Nil))
        /\ sresult' = [sresult EXCEPT !.interrupted = TRUE]
        /\ spc' = "wait" /\ UNCHANGED sret
  /\ UNCHANGED <<sopts, sself, swaitErr, sout>>
  /\ UNCHANGED exceptS

\* tmux.WaitIdle returns (stop.go:64).
StopWait ==
  /\ spc = "wait"
  /\ \E w \in WaitOutcomes :
       /\ swaitErr' = w
       /\ slog' = Append(slog, Call("WaitIdle", w))
  /\ spc' = "decide"
  /\ UNCHANGED <<sopts, sself, sresult, sout, sret>>
  /\ UNCHANGED exceptS

\* stop.go:65-78: a timeout is marked and, under --kill, followed by
\* tmux.Kill; another wait error is returned.
StopDecide ==
  /\ spc = "decide"
  /\ IF swaitErr = Nil
     THEN spc' = "emit" /\ UNCHANGED <<slog, sresult, sret>>
     ELSE IF killAfterWait(swaitErr, sopts.kill)
     THEN \E k \in Kill(sopts.target, sself) :
            /\ slog' = slog \o k.log
            /\ IF k.err # Nil
               THEN /\ SFail(k.err)
                    /\ sresult' = [sresult EXCEPT !.waitError = swaitErr, !.timedOut = TRUE]
               ELSE /\ sresult' = [sresult EXCEPT !.waitError = swaitErr,
                                                  !.timedOut = TRUE, !.killed = TRUE]
                    /\ spc' = "emit" /\ UNCHANGED sret
     ELSE IF isTimeout(swaitErr)
     THEN /\ sresult' = [sresult EXCEPT !.waitError = swaitErr, !.timedOut = TRUE]
          /\ spc' = "emit" /\ UNCHANGED <<slog, sret>>
     ELSE SFail(swaitErr) /\ sresult' = [sresult EXCEPT !.waitError = swaitErr]
          /\ UNCHANGED slog
  /\ UNCHANGED <<sopts, sself, swaitErr, sout>>
  /\ UNCHANGED exceptS

\* stop.go:80-115: the result is written, then retErr = waitErr returned; a
\* failed encoding of json or yaml is returned in its place.
StopEmit ==
  /\ spc = "emit"
  /\ \/ /\ sout' = [written |-> TRUE, result |-> sresult]
        /\ SFail(swaitErr)
     \/ /\ sopts.structured /\ SFail(ErrWrite) /\ UNCHANGED sout
  /\ UNCHANGED <<sopts, sself, slog, swaitErr, sresult>>
  /\ UNCHANGED exceptS

\* The kill command (kill.go:47-65): a dry run and a declined prompt kill
\* nothing; else tmux.Kill and the result.
KillCmd ==
  /\ spc = "start" /\ sopts.cmd = "kill"
  /\ IF sopts.dryRun
     THEN /\ sresult' = [sresult EXCEPT !.dryRun = TRUE]
          /\ sout' = [written |-> TRUE, result |-> sresult']
          /\ SFail(Nil) /\ UNCHANGED slog
     ELSE \/ /\ ~sopts.yes /\ SFail(Nil) /\ UNCHANGED <<slog, sresult, sout>>
          \/ \E k \in Kill(sopts.target, sself) :
               /\ slog' = slog \o k.log
               /\ IF k.err # Nil
                  THEN SFail(k.err) /\ UNCHANGED <<sresult, sout>>
                  ELSE /\ sresult' = [sresult EXCEPT !.killed = TRUE]
                       /\ sout' = [written |-> TRUE, result |-> sresult']
                       /\ SFail(Nil)
  /\ UNCHANGED <<sopts, sself, swaitErr>>
  /\ UNCHANGED exceptS

SNext == StopInterrupt \/ StopWait \/ StopDecide \/ StopEmit \/ KillCmd

\* ================================================== claims: extractor
\* Whether the text ended with a newline (history: how it was written).
XTrailing == xNl

XMax(S) == CHOOSE i \in S : \A j \in S : j <= i

XMin(S) == CHOOSE i \in S : \A j \in S : i <= j

\* The lines holding the start tag, and the last of them.
XStartLines == {i \in 1..Len(xLines) : Contains(xLines[i], xin.startTag)}

XLastStart == XMax(XStartLines)

\* The lines after the last start line that hold the end tag.
XEndLinesAfter ==
  {j \in 1..Len(xLines) : j > XLastStart /\ Contains(xLines[j], xin.endTag)}

\* A line that holds the exit tag followed by an integer.
XIsExitLine(line) ==
  /\ Contains(line, xin.exitTag)
  /\ Atoi(TrimSpace(SubSeq(line, Index(line, xin.exitTag) + Len(xin.exitTag) + 1,
                           Len(line)))).ok

XExitCodeOf(line) ==
  Atoi(TrimSpace(SubSeq(line, Index(line, xin.exitTag) + Len(xin.exitTag) + 1,
                        Len(line)))).val

\* What the claim expects of a window w: the window less its last exit line.
XExpected(w) ==
  LET exits == {k \in 1..Len(w) : XIsExitLine(w[k])}
      parse == xin.parseExit /\ xin.exitTag # <<>> /\ exits # {}
      kept == IF parse THEN RemoveAt(w, XMax(exits)) ELSE w
      text == Join(kept, <<NL>>)
  IN [clean |-> IF XTrailing THEN text \o <<NL>> ELSE text,
      code |-> IF parse THEN <<XExitCodeOf(w[XMax(exits)])>> ELSE <<>>,
      found |-> parse,
      windowFound |-> TRUE]

\* The scenario of TestExtractRunWindow: noise, start, line1, exit 7, end.
XTestText ==
  <<"n", NL, "S", NL, "l", "1", NL, "X", "7", NL, "E", NL>>

XTestOk ==
  extractRunWindow(XTestText, <<"S">>, <<"E">>, <<"X">>, TRUE)
    = [clean |-> <<"l", "1", NL>>, code |-> <<7>>, found |-> TRUE, windowFound |-> TRUE]

\* C1 (as stated): for non-empty tags, whenever SOME line holding the start
\* tag is later followed by a line holding the end tag, the window is found
\* and is the lines strictly between the last start line and the first end
\* line after it (less the exit line when exit parsing is requested).
C1_Original ==
  (/\ xpc = "done"
   /\ xin.startTag # <<>> /\ xin.endTag # <<>>
   /\ \E i, j \in 1..Len(xLines) :
        i < j /\ Contains(xLines[i], xin.startTag) /\ Contains(xLines[j], xin.endTag))
  => /\ XEndLinesAfter # {}
     /\ xres = XExpected(SubSeq(xLines, XLastStart + 1, XMin(XEndLinesAfter) - 1))

\* C1 (amended): for non-empty tags, whenever the LAST line holding the start
\* tag is later followed by a line holding the end tag, windowFound is true
\* and the cleaned text is the lines strictly between that last start line
\* and the first end line after it, joined by newlines and ending in a
\* newline iff the capture did, less the last line carrying an exit code when
\* exit parsing is requested; the test's scenario gives "line1\n" and 7.
C1_Window ==
  /\ XTestOk
  /\ (/\ xpc = "done"
      /\ xin.startTag # <<>> /\ xin.endTag # <<>>
      /\ XStartLines # {}
      /\ XEndLinesAfter # {})
     => xres = XExpected(SubSeq(xLines, XLastStart + 1, XMin(XEndLinesAfter) - 1))

\* C1 witness: start line, output, exit line, end line; code 7 parsed and the
\* output line kept.
C1_Witness ==
  /\ xpc = "done"
  /\ xLines = << <<"a", "S">>, <<"a">>, <<"X", "7">>, <<"E">> >>
  /\ xin.parseExit /\ xin.startTag # <<>> /\ xin.endTag # <<>> /\ xin.exitTag # <<>>
  /\ xres = [clean |-> <<"a", NL>>, code |-> <<7>>, found |-> TRUE, windowFound |-> TRUE]

\* C10: if no line of the text holds the start tag, extractRunWindow reports
\* no window, no exit code, exitFound false, and returns the text itself,
\* character for character.
C10_NoStart ==
  (xpc = "done" /\ XStartLines = {})
  => xres = [clean |-> xT, code |-> <<>>, found |-> FALSE, windowFound |-> FALSE]

\* C10 witness: a text with an end line and an exit line but no start line,
\* not ending in a newline.
C10_Witness ==
  /\ xpc = "done"
  /\ xin.startTag = <<"S">>
  /\ xLines = << <<"X", "7">>, <<"E">>, <<"a">> >>
  /\ ~XTrailing
  /\ xres.clean = xT /\ ~xres.windowFound

\* C11: if no line after the last line holding the start tag holds the end
\* tag, windowFound is true and the window is every line from just after
\* that start line to the end of the text (returned joined by newlines, with
\* the text's trailing newline, less the exit line when exit parsing is
\* requested).
C11_OpenWindow ==
  (/\ xpc = "done"
   /\ xin.startTag # <<>> /\ xin.endTag # <<>>
   /\ XStartLines # {}
   /\ XEndLinesAfter = {})
  => /\ xres.windowFound
     /\ xres = XExpected(SubSeq(xLines, XLastStart + 1, Len(xLines)))

\* C11 witness: an end line before the start line, none after it; the two
\* lines after the start line are the window.
C11_Witness ==
  /\ xpc = "done"
  /\ xLines = << <<"E">>, <<"a", "S">>, <<"a">>, <<"X", "a">> >>
  /\ xin = XArgs(<<"S">>, <<"E">>, <<"X">>, FALSE)
  /\ XTrailing
  /\ xres = [clean |-> <<"a", NL, "X", "a", NL>>, code |-> <<>>, found |-> FALSE,
             windowFound |-> TRUE]

\* The lines of the text that hold the exit tag, and those among them that
\* hold it followed by an integer.
XTagLines == {k \in 1..Len(xLines) : Contains(xLines[k], xin.exitTag)}

XCodeLines == {k \in 1..Len(xLines) : XIsExitLine(xLines[k])}

\* C12 (as stated): for every line buffer, extractExitFromLines applied to
\* the lines a first successful extraction returned reports exitFound =
\* false and leaves those lines unchanged.
C12_Original ==
  (xpc = "exit" /\ xex.first.found)
  => (~xex.second.found /\ xex.second.lines = xex.first.lines)

\* C12 (amended): for every line buffer with exactly one line that holds the
\* exit tag followed by an integer, extractExitFromLines applied to the
\* lines the first extraction returned (that line removed) reports exitFound
\* = false, no code, and leaves those lines unchanged.
C12_Idempotent ==
  (xpc = "exit" /\ xin.exitTag # <<>> /\ Cardinality(XCodeLines) = 1)
  => /\ xex.first.found
     /\ xex.first.lines = RemoveAt(xLines, XMax(XCodeLines))
     /\ ~xex.second.found /\ xex.second.code = <<>>
     /\ xex.second.lines = xex.first.lines

\* C12 witness: the one line with a code is taken out, the exit-tag line
\* without an integer stays, and the second call finds nothing.
C12_Witness ==
  /\ xpc = "exit"
  /\ xLines = << <<"a">>, <<"X", "7">>, <<"X", "a">> >>
  /\ xex.first = [lines |-> << <<"a">>, <<"X", "a">> >>, code |-> <<7>>, found |-> TRUE]
  /\ xex.second = [lines |-> << <<"a">>, <<"X", "a">> >>, code |-> <<>>, found |-> FALSE]

\* The window of a found extraction: the lines after the last start line, up
\* to the first end line after it or to the end of the text.
XWindowLast ==
  IF XEndLinesAfter = {} THEN Len(xLines) ELSE XMin(XEndLinesAfter) - 1

XWindowTagLines == {k \in XTagLines : k > XLastStart /\ k <= XWindowLast}

XWindowCodeLines == {k \in XCodeLines : k > XLastStart /\ k <= XWindowLast}

\* The case of C13: exit parsing on a window with more than one line holding
\* the exit tag.
C13_Case ==
  /\ xpc = "done" /\ xin.parseExit
  /\ xin.startTag # <<>> /\ xin.endTag # <<>> /\ xin.exitTag # <<>>
  /\ XStartLines # {}
  /\ Cardinality(XWindowTagLines) > 1

\* The text of the window with line k left out.
XWindowWithout(k) ==
  LET kept == SubSeq(xLines, XLastStart + 1, k - 1) \o SubSeq(xLines, k + 1, XWindowLast)
      text == Join(kept, <<NL>>)
  IN IF XTrailing THEN text \o <<NL>> ELSE text

\* C13 (as stated): with more than one line holding the exit tag in the
\* window, the reported code is the integer on the LAST such line, and that
\* line is removed from the cleaned output.
C13_Original ==
  C13_Case
  => /\ xres.found
     /\ XIsExitLine(xLines[XMax(XWindowTagLines)])
     /\ xres.code = <<XExitCodeOf(xLines[XMax(XWindowTagLines)])>>
     /\ xres.clean = XWindowWithout(XMax(XWindowTagLines))

\* C13 (amended): with more than one line holding the exit tag in the
\* window, the reported code is the integer on the last such line that
\* carries an integer, and that line alone is removed from the cleaned
\* output wherever it stands; if none carries an integer no code is reported
\* and no line is removed.
C13_LastExitLine ==
  C13_Case
  => IF XWindowCodeLines = {}
     THEN /\ ~xres.found /\ xres.code = <<>>
          /\ xres.clean = XWindowWithout(XWindowLast + 1)
     ELSE /\ xres.found
          /\ xres.code = <<XExitCodeOf(xLines[XMax(XWindowCodeLines)])>>
          /\ xres.clean = XWindowWithout(XMax(XWindowCodeLines))

\* C13 witness: codes 7 and 3 in the window, 3 on the later line, output
\* after it; 3 is reported and only its line is gone.
C13_Witness ==
  /\ xpc = "done" /\ xin.parseExit
  /\ xLines = << <<"a", "S">>, <<"X", "7">>, <<"X", "3">>, <<"a">> >>
  /\ XTrailing
  /\ xres = [clean |-> <<"X", "7", NL, "a", NL>>, code |-> <<3>>, found |-> TRUE,
             windowFound |-> TRUE]

\* ======================================================== claims: run
\* RunE has returned after its idle wait returned (a Capture call was made).
RDoneAfterWait == rpc = "done" /\ ncap >= 1

\* The error combineRunErrors makes of a non-zero exit code c.
ExitedWith(c) == errCommandExit \o <<":", "command", "exited", "with">> \o FormatInt(c)

ExitNotFound == errCommandExit \o <<":", "exit", "code", "not", "found">>

\* C2 (as stated): the sentinel tokens of a run, the exit tag among them, are
\* its own, so an exit code that run reports is the one its own wrapped
\* command printed, never one left in the scrollback by an earlier run, also
\* when this run's start marker is not in the capture.
C2_OwnExitCode ==
  (rpc \in {"emit", "return", "done"} /\ found) => codePtr = <<rcmd.status>>

\* What the wrapped command prints when it runs to its end: the start marker,
\* the command's output, the exit marker with the command's status, the end
\* marker.
C3_Expected ==
  LET ex == IF TrimSpace(ropts.exitTag) = <<>> THEN DefaultExitTag ELSE ropts.exitTag
  IN <<NL>> \o rtags.startTag \o <<NL>>
     \o rcmd.out
     \o (IF ropts.exitCode THEN <<NL>> \o ex \o FormatInt(rcmd.status) \o <<NL>> ELSE <<>>)
     \o <<NL>> \o rtags.endTag \o <<NL>>

\* C3: the wrapped command emits the start marker, runs the user command,
\* takes its exit status before anything else runs, emits the exit marker
\* with exactly that status (with --exit-code) and then the end marker: at
\* every moment what it has printed is a beginning of that sequence, all of
\* it once the command has run, and the variable status, once set, holds the
\* user command's exit status whatever printf ran since.
C3_WrapOrder ==
  (Sentinels /\ ptyped # <<>>)
  => /\ Len(paneOut) <= Len(C3_Expected)
     /\ paneOut = SubSeq(C3_Expected, 1, Len(paneOut))
     /\ (pentered /\ paneEcho # <<>> /\ shq = <<>>) => paneOut = C3_Expected
     /\ sh.status \in {<<>>, <<rcmd.status>>}
     /\ (pentered /\ Len(shq) + 3 <= Len(ptyped)) => sh.status = <<rcmd.status>>

\* C3 witness: a command that exits 7 has run to the end under --exit-code.
C3_Witness ==
  /\ ropts.exitCode /\ ropts.exitTag = DefaultExitTag /\ rcmd.status = 7
  /\ pentered /\ shq = <<>>
  /\ paneOut = <<NL, "S", "2", NL, "a", NL, NL, "X", "7", NL, NL, "E", "2", NL>>

\* The condition under which the claim says run fails after a good wait.
C4_ShouldFail ==
  ropts.exitPropagate
  /\ \/ ropts.exitCode /\ ~found
     \/ found /\ codePtr # <<>> /\ codePtr[1] # 0

C6_Case ==
  /\ ropts.exitCode /\ ropts.exitPropagate /\ ropts.format \in {"json", "yaml"}
  /\ rcmd.status # 0
  /\ found /\ codePtr = <<rcmd.status>>

WStale == \E i \in 1..Len(wlog) : wlog[i].stale

\* WaitIdle has returned success at time now for a pane whose output stopped
\* changing during the call, at ptlast, with the quiet period over before the
\* deadline; every PaneActivity call after the first did its work.
C7_Case ==
  /\ wpc = "done" /\ wres = Nil /\ ~wfell
  /\ wq > 0 /\ ~WStale
  /\ ptlast >= wdeadline - wtimeout
  /\ ptlast + wq < wdeadline

\* C7 (as stated): for a pane whose output stops changing at t0 and a quiet
\* period q, WaitIdle returns success at a time in
\* [t0 + q, t0 + q + pollInterval), never earlier than t0 + q, with the
\* activity timestamp and with the content hash alike.
C7_IdleWindow ==
  C7_Case => (ptlast + wq <= now /\ now < ptlast + wq + PollInterval)

\* A pane that has changed at every tick since WaitIdle was called, and no
\* tmux call of WaitIdle failed after the first PaneActivity.
C8_Case == wsteady /\ ~wfell /\ wwhy # "tmux" /\ wq > 0 /\ ~WStale

\* C8 (as stated): for a pane whose output keeps changing, WaitIdle ends
\* with the timeout error, not before start + timeout and no later than one
\* poll interval after it, and never with success.
C8_TimesOut ==
  /\ (C8_Case /\ wpc = "done")
     => (wres = ErrTimeout /\ now >= wdeadline /\ now <= wdeadline + PollInterval)
  /\ (C8_Case /\ wpc \in {"ts", "hash"}) => wake <= wdeadline + PollInterval

\* C9: isTimeout(err) is true exactly of the error WaitIdle returns when the
\* deadline has passed, false of its success and of every failed tmux call,
\* so the wait command reports timed_out, and the stop command kills the
\* pane, only after WaitIdle ran into its deadline.
C9_TimeoutKind ==
  /\ wpc = "done" => (isTimeout(wres) <=> wwhy = "deadline")
  /\ (wpc = "done" /\ wwhy = "deadline") => now > wdeadline
  /\ (wpc = "done" /\ wwhy # "deadline" /\ wdeadline > 0) => now <= wdeadline
  /\ cres.cmd = "wait" => (cres.timedOut <=> wwhy = "deadline")
  /\ cres.cmd = "stop" => (cres.timedOut <=> wwhy = "deadline")
  /\ cres.killed => (cres.cmd = "stop" /\ wwhy = "deadline")

\* C9 witness: WaitIdle failed on a tmux call and the stop command did not
\* take it for a timeout.
C9_Witness ==
  /\ wpc = "done" /\ wwhy = "tmux" /\ wres = ErrCapture(<<"exit", "status", "1">>)
  /\ cres.cmd = "stop" /\ ~cres.timedOut /\ ~cres.killed /\ cres.err = wres

\* ------------------------------------------- claims: WaitIdle's polling
\* The last tmux query WaitIdle made.
WLast == wlog[Len(wlog)]

\* WaitIdle is in a loop, between two iterations.
WLooping == wpc \in {"ts", "hash"}

WReadings == {wlog[i].r : i \in {j \in 1..Len(wlog) : wlog[j].ok /\ wlog[j].kind # "hash"}}

MaxOf(S) == CHOOSE x \in S : \A y \in S : y <= x

\* C26: in timestamp mode lastActivity is the maximum of all the activity
\* times read so far, readings older than an earlier one included; it never
\* decreases, and the idle test is made with that maximum.
C26_KeepsMax ==
  /\ [](WReadings # {} => lastActivity = MaxOf(WReadings))
  /\ []((wlog # <<>> /\ WLast.kind = "ts" /\ WLast.ok) =>
          /\ (wpc = "done" /\ wres = Nil) => now - MaxOf(WReadings) >= wq
          /\ wpc = "ts" => WLast.t - MaxOf(WReadings) < wq)
  /\ [][lastActivity' >= lastActivity]_wvars

\* WaitIdle read an activity time older than one it had read before and
\* returned success by the later one.
C26_Witness ==
  /\ wpc = "done" /\ wres = Nil /\ wlog # <<>> /\ WLast.kind = "ts" /\ wq > 0
  /\ \E i, j \in 1..Len(wlog) : i < j /\ wlog[i].ok /\ wlog[j].ok /\ wlog[j].r < wlog[i].r
  /\ lastActivity = MaxOf(WReadings) /\ lastActivity > WLast.r

\* C27 (as stated): the strategy is selected once, at the start of the
\* call, and every poll up to the return uses it; the hash is used only
\* when no activity time was to be had at the start.
C27_OneStrategy ==
  \A i \in 2..Len(wlog) : wlog[i].kind = (IF wlog[1].ok THEN "ts" ELSE "hash")

\* C28 (as stated): with a quiet period of zero or less WaitIdle returns
\* success at the first poll that shows no new output and at no poll that
\* saw new output, in either loop.
C28_ZeroQuiet ==
  wq <= 0 =>
    /\ (wpc = "done" /\ wres = Nil) => ~WLast.new
    /\ (WLooping /\ wlog # <<>> /\ WLast.kind # "first" /\ WLast.ok) => WLast.new

\* The captures of the hash loop.
WHash == SelectSeq(wlog, LAMBDA q : q.kind = "hash")

\* WaitIdle is in, or returned from, the hash loop.
WHashMode == wlog # <<>> /\ (~wlog[1].ok \/ wfell)

\* C30: from the hash loop WaitIdle never returns success at its first
\* capture, and with idleDur > timeout it returns the timeout or the error
\* of a capture, never success.
C30_HashNeedsTwo ==
  /\ (wpc = "done" /\ wres = Nil /\ WHashMode) =>
       /\ Len(WHash) >= 2
       /\ \A i \in 1..Len(WHash) : WHash[i].ok
       /\ WHash[1].new /\ ~WHash[Len(WHash)].new
  /\ (wpc = "done" /\ WHashMode /\ wq > wtimeout) =>
       wres \in {ErrTimeout} \cup CaptureErrors

\* The hash loop ran into the deadline with a quiet period longer than the
\* timeout, on a pane that did not change between its captures.
C30_Witness ==
  /\ wpc = "done" /\ WHashMode /\ wq > wtimeout /\ wres = ErrTimeout
  /\ Len(WHash) >= 3 /\ \A i \in 2..Len(WHash) : WHash[i].ok /\ ~WHash[i].new


\* ------------------------------------------------- claims: run's target
\* The --pane argument is blank.
RBlankPane == \A i \in 1..Len(rarg) : rarg[i] \in Whitespace

\* The --pane argument is an @alias selector the alias file has no member for.
RUnknownAlias ==
  /\ Len(rarg) >= 2 /\ rarg[1] = "@" /\ rarg \notin {SelCurrent, SelActive}
  /\ \A i \in 1..Len(rarg) : i > 1 => rarg[i] \in AliasChars
  /\ renv.file.readable
  /\ \A i \in 1..Len(renv.file.data) : renv.file.data[i].name # Tail(rarg)

\* The --pane argument is @active and tmux lists no active pane.
RNoActivePane == rarg = SelActive /\ renv.panesErr = Nil /\ renv.active = <<>>

\* The --pane argument is a pane id, or an alias of one, that is malformed:
\* it has no colon or no dot.
RMalformedPane ==
  LET bad(t) == (\A i \in 1..Len(t) : t[i] # ":") \/ (\A i \in 1..Len(t) : t[i] # ".")
  IN \/ ~RBlankPane /\ rarg[1] \notin {"@"} \cup Whitespace /\ bad(rarg)
     \/ /\ Len(rarg) >= 2 /\ rarg[1] = "@"
        /\ \E i \in 1..Len(renv.file.data) :
              /\ renv.file.data[i].name = Tail(rarg)
              /\ bad(renv.file.data[i].target)
        /\ renv.file.data[Len(renv.file.data)] = JClose

\* C16: when the pane target of run cannot be resolved or is no pane id
\* (blank --pane, unknown @alias, no active pane for @active, malformed id),
\* run fails at once: nothing is sent, no wait, no capture, nothing emitted.
C16_TargetFatal ==
  (RBlankPane \/ RUnknownAlias \/ RNoActivePane \/ RMalformedPane) =>
     /\ rpc \in {"start", "done"}
     /\ ptyped = <<>> /\ ~pentered /\ paneEcho = <<>>
     /\ waitErr = Nil /\ ncap = 0 /\ capt = <<>> /\ emitted = NoEmit
     /\ rpc = "done" => retErr # Nil

\* run has returned for an alias that names a malformed pane id.
C16_Witness ==
  /\ rpc = "done" /\ RMalformedPane /\ rarg[1] = "@"
  /\ retErr[1] = "ERR_INVALID_PANE" /\ ptyped = <<>>


\* ------------------------------------------------ claims: validation
\* The target is session:window.pane: one colon, one dot after it.
TDecomposes ==
  \E i, j \in 1..Len(ttarget) :
     /\ i < j /\ ttarget[i] = ":" /\ ttarget[j] = "."
     /\ \A k \in 1..Len(ttarget) : (ttarget[k] = ":" => k = i) /\ (ttarget[k] = "." => k = j)

\* C17: a target that passes validatePaneTarget decomposes into one session,
\* one window index and one pane index as session:window.pane, and a string
\* that does not is rejected with ERR_INVALID_PANE.
C17_Decomposes ==
  tpc = "done" =>
    /\ tres.err = Nil => TDecomposes
    /\ ~TDecomposes => (tres.err # Nil /\ tres.err[1] = "ERR_INVALID_PANE")


\* ------------------------------------------------ claims: alias file
\* The mapping the mutation is to leave in the file.
ANewMapping ==
  IF aop.kind = "set"
  THEN [n \in (DOMAIN aold) \cup {aop.name} |-> IF n = aop.name THEN aop.target ELSE aold[n]]
  ELSE [n \in (DOMAIN aold) \ {aop.name} |-> aold[n]]

\* C20: an invocation that loads the alias file while an alias set or unset
\* rewrites it gets the complete old mapping or the complete new one, never
\* an empty or partly written one.
C20_AtomicRewrite ==
  (lpc = "done" /\ lmid) => (lres.err = Nil /\ lres.aliases \in {aold, ANewMapping})


\* ------------------------------------------------ claims: run's errors
\* The stable codes (README.md, Error codes).
ErrorCodes ==
  { "ERR_PANE_REQUIRED", "ERR_INVALID_PANE", "ERR_UNKNOWN_SELECTOR", "ERR_NO_ACTIVE_PANE",
    "ERR_NO_CURRENT_PANE", "ERR_NOT_IN_TMUX", "ERR_SIGNAL_UNSUPPORTED", "ERR_COMMAND_EXIT",
    "ERR_INVALID_ENV" }

\* C18: an error of the core (target resolution, idle timeout, exit code not
\* found or non-zero under propagation, a failed multiplexer call) that run
\* returns is a code ERR_... followed by a message.  (The error of a failed
\* write of the result is left aside.)
C18_CodedErrors ==
  (rpc = "done" /\ retErr # Nil /\ retErr # ErrWrite) =>
     (retErr[1] \in ErrorCodes /\ Len(retErr) >= 3 /\ retErr[2] = ":")

\* The failures of a multiplexer call that tmux.WaitIdle returns.
MuxFailures == WaitOutcomes \ {Nil, ErrTimeout}

\* C19: a multiplexer call that fails inside run is fatal and not retried:
\* once tmux.WaitIdle has failed on a multiplexer call, run makes no further
\* multiplexer call.
C19_MuxFailureFatal == waitErr \in MuxFailures => ncap = 0


\* ------------------------------------------------ claims: stop and kill
\* The commands of the log, in order.
SCmds == [i \in 1..Len(slog) |-> slog[i].cmd]

\* tmux.Kill was called: it starts with tmux display-message.
SKillCalled == \E i \in 1..Len(slog) : slog[i].cmd = "display-message"

\* tmux kill-pane was issued.
SKillIssued == \E i \in 1..Len(slog) : slog[i].cmd = "kill-pane"

\* C21: stop sends Ctrl+C, then waits for idle, then kills only after a wait
\* that ended in the timeout and under --kill; a wait that succeeded or
\* failed otherwise never leads to a kill; killed = true is reported only
\* after the kill call succeeded, with timed_out and interrupted true.
C21_StopOrder ==
  sopts.cmd = "stop" =>
    /\ Len(slog) >= 1 => slog[1].cmd = "send-keys C-c"
    /\ Len(slog) >= 2 => (slog[1].err = Nil /\ slog[2].cmd = "WaitIdle")
    /\ \A i \in 1..Len(slog) : slog[i].cmd \in {"display-message", "kill-pane"} => i >= 3
    /\ SKillCalled => (swaitErr = ErrTimeout /\ slog[2].err = ErrTimeout /\ sopts.kill)
    /\ sresult.killed =>
         /\ slog[Len(slog)] = Call("kill-pane", Nil)
         /\ sresult.timedOut /\ sresult.interrupted
    /\ (sout.written /\ sout.result.killed) =>
         /\ slog[Len(slog)] = Call("kill-pane", Nil)
         /\ sout.result.timedOut /\ sout.result.interrupted

\* stop has killed the pane after a timeout and written the result.
C21_Witness ==
  /\ sopts.cmd = "stop" /\ spc = "done" /\ sout.written /\ sout.result.killed
  /\ SCmds = <<"send-keys C-c", "WaitIdle", "display-message", "kill-pane">>

\* C22: when the target is the pane the tool itself runs in, tmux.Kill
\* returns an error and no kill-pane is issued, from the kill command and
\* from stop alike.
C22_NoSelfKill ==
  (sself # <<>> /\ TrimSpace(sopts.target) = sself) =>
     /\ ~SKillIssued
     /\ (SKillCalled /\ spc = "done") => sret # Nil


\* ------------------------------------------- claims: run's captures
\* C23: after the idle wait run captures with the line limit; with sentinels
\* in use, the start marker not in that capture and a limit above 0 it makes
\* exactly one more capture, without limit, and extracts from it; it never
\* captures more than twice, and not a second time when the marker was found
\* or the first capture was unlimited.
C23_RetryOnce ==
  /\ Len(rcaps) <= 2 /\ ncap = Len(rcaps)
  /\ (rpc \in {"emit", "return", "done"} /\ rcaps # <<>> /\ rcaps[1].ok) =>
       LET first == rcaps[1]
           missed == /\ Sentinels /\ first.lines > 0
                     /\ ~Contains(first.text, rtags.startTag)
       IN /\ first.lines = ropts.lines
          /\ Len(rcaps) = 2 <=> missed
          /\ Len(rcaps) = 2 =>
               /\ rcaps[2].lines = 0
               /\ (rcaps[2].ok /\ rpc = "emit") =>
                    LET ex == RunExtract(rcaps[2].text)
                        st == Settle(first.text, ex, ropts.exitCode, ropts.exitTag)
                    IN /\ windowFound = Contains(rcaps[2].text, rtags.startTag)
                       /\ capt = st.capture /\ codePtr = st.code /\ found = st.found

\* The second, full capture showed the window the limited one had missed,
\* and the exit code with it.
C23_Witness ==
  /\ rpc = "done" /\ Len(rcaps) = 2 /\ rcaps[1].ok /\ rcaps[2].ok
  /\ rcaps[1].lines > 0 /\ rcaps[2].lines = 0
  /\ windowFound /\ found /\ codePtr = <<rcmd.status>>


RUsedCapture == IF Len(rcaps) = 2 /\ rcaps[2].ok THEN rcaps[2] ELSE rcaps[1]

\* --exit-code was given, the command has run to its end and the capture run
\* extracted from shows the whole window, start marker to end marker.
C29_Case ==
  /\ ropts.exitCode /\ rpc \in {"emit", "return", "done"}
  /\ rcaps # <<>> /\ RUsedCapture.ok
  /\ Contains(RUsedCapture.text, SubSeq(C3_Expected, 2, Len(C3_Expected) - 1))

\* C29 (as stated): for every --exit-tag value, empty and blank included,
\* the exit tag the wrapped command prints is the one the extractor looks
\* for, so under --exit-code a command that ran to its end with status c in
\* a fully captured window is reported with exit_found = true, exit_code = c.
C29_ExitTagAgrees ==
  C29_Case => (found /\ codePtr = <<rcmd.status>>)


\* ===================================================== claims: follow
\* An iteration of follow's loop has emitted its lines.
FPolled == fpc \in {"loop", "done"} /\ finit /\ ferr = Nil

\* C14: follow streams all and only the new output, in pane order: without
\* --from-start the first poll emits nothing, and each later poll emits
\* exactly the lines printed since the poll before it, as long as no more
\* lines than the capture limit came between two polls.
C14_Streams ==
  (FPolled /\ ~fover) =>
     IF ffirst THEN (~fopts.fromStart => femit = <<>>)
     ELSE femit = fdue

\* A later poll under a capture limit, after lines within the limit came.
C14_Case == FPolled /\ ~fover /\ ~ffirst /\ fopts.lines > 0 /\ fdue # <<>>


\* The overlap lengths of prev and curr: the k >= 1 for which the last k
\* lines of prev are the first k lines of curr.
DOverlaps(prev, curr) ==
  {k \in 1..Len(prev) : k <= Len(curr)
      /\ \A i \in 1..k : prev[Len(prev) - k + i] = curr[i]}

\* curr is prev with lines added after it.
DExtends(prev, curr) ==
  /\ Len(prev) <= Len(curr)
  /\ \A i \in 1..Len(prev) : curr[i] = prev[i]

\* curr without its first k lines.
DAfter(curr, k) == [i \in 1..(Len(curr) - k) |-> curr[k + i]]

\* The cases of follow_test.go.
DTestOk ==
  /\ diffLines(<< <<"a">>, <<"b">>, <<"c">> >>, << <<"a">>, <<"b">>, <<"c">>, <<"d">> >>)
       = << <<"d">> >>
  /\ diffLines(<< <<"a">>, <<"b">> >>, << <<"x">> >>) = << <<"x">> >>
  /\ diffLines(<< <<"a">>, <<"b">>, <<"c">> >>, << <<"b">>, <<"c">>, <<"d">> >>)
       = << <<"d">> >>

\* C15: diffLines(prev, curr) returns exactly the added lines when curr
\* extends prev; when a suffix of prev is a prefix of curr it returns curr
\* after the longest such overlap; with no overlap it returns all of curr.
C15_DiffLines ==
  dpc = "done" =>
    /\ DExtends(dprev, dcurr) => dout = DAfter(dcurr, Len(dprev))
    /\ DOverlaps(dprev, dcurr) # {} =>
         \E k \in DOverlaps(dprev, dcurr) :
            /\ \A j \in DOverlaps(dprev, dcurr) : j <= k
            /\ dout = DAfter(dcurr, k)
    /\ DOverlaps(dprev, dcurr) = {} => dout = dcurr
    /\ DTestOk

\* diffLines has run on a pair with overlaps of two different lengths.
C15_Witness ==
  /\ dpc = "done"
  /\ Cardinality(DOverlaps(dprev, dcurr)) >= 2
  /\ Len(dout) < Len(dcurr) /\ dout # <<>>


\* ======================================================= specifications
vars == <<xvars, rvars, wvars, fvars, dvars, tvars, avars, svars>>

\* The extractor variables while no extraction is modelled.
XIdle == xpc = "idle" /\ xT = <<>> /\ xLines = <<>> /\ xNl = FALSE /\ xin = XNoArgs
         /\ xres = NotFound(<<>>) /\ xex = XNoExit

\* extractRunWindow on every text of up to MaxLines lines.
InitExtract == XInit /\ RIdle /\ WIdle /\ FIdle /\ DIdle /\ TIdle /\ AIdle /\ SIdle

SpecExtract == InitExtract /\ [][XNext]_vars

\* One run invocation and the pane it drives.
InitRun == RInit /\ XIdle /\ WIdle /\ FIdle /\ DIdle /\ TIdle /\ AIdle /\ SIdle

SpecRun == InitRun /\ [][RNext]_vars

\* One call of WaitIdle, the pane it watches and the command that called.
InitWait == WInit /\ XIdle /\ RIdle /\ FIdle /\ DIdle /\ TIdle /\ AIdle /\ SIdle

SpecWait == InitWait /\ [][WNext]_vars

\* The follow command's loop and the pane it polls.
InitFollow == FInit /\ XIdle /\ RIdle /\ WIdle /\ DIdle /\ TIdle /\ AIdle /\ SIdle

SpecFollow == InitFollow /\ [][FNext]_vars

\* diffLines on every pair of buffers of up to DiffLen lines.
InitDiff == DInit /\ XIdle /\ RIdle /\ WIdle /\ FIdle /\ TIdle /\ AIdle /\ SIdle

SpecDiff == InitDiff /\ [][DNext]_vars

\* validatePaneTarget on every target of up to TargetLen characters.
InitTarget == TInit /\ XIdle /\ RIdle /\ WIdle /\ FIdle /\ DIdle /\ AIdle /\ SIdle

SpecTarget == InitTarget /\ [][TNext]_vars

\* An alias set or unset with another invocation loading the alias file.
InitAlias == AInit /\ XIdle /\ RIdle /\ WIdle /\ FIdle /\ DIdle /\ TIdle /\ SIdle

SpecAlias == InitAlias /\ [][ANext]_vars

\* The stop and kill commands from their first tmux call on.
InitStop == SInit /\ XIdle /\ RIdle /\ WIdle /\ FIdle /\ DIdle /\ TIdle /\ AIdle

SpecStop == InitStop /\ [][SNext]_vars

====
